---- MODULE Spec2Model ----
(***************************************************************************)
(* Verification model of the pizza price harvesters.                      *)
(*                                                                         *)
(*   - Pizza Hut: fetch_json / scrape_store / blast_all, the wave loop     *)
(*     with the shared STOP_FLAG (pizza_hut_scraper.py).                   *)
(*   - Domino's: main with executor.map over scrape_store, and the         *)
(*     document extractor collect_products_and_variants                    *)
(*     (dominos_scraper.py).                                               *)
(*   - Pizza Pizza: main with as_completed (pizza_pizza_scraper.py).       *)
(*                                                                         *)
(* Rows are abstracted to the identifier of the target that produced       *)
(* them; upstream answers are a nondeterministic choice per request.       *)
(***************************************************************************)
EXTENDS Integers, Sequences, FiniteSets, TLC

\* ------------------------------------------------------------------ bounds
\* longest target list handed to an orchestrator
MaxHuts == 2
\* distinct target identifiers 1..NumIds (0 stands for a missing/falsy id)
NumIds == 2
\* worker threads of the pool (the sources use 32, 15 and 32)
PoolSize == 2

Ids == 0..NumIds

VARIABLES
  huts,          \* Pizza Hut: the hut list (hut = its "id"); others: the id list
  remaining,     \* blast_all: ids still to scrape
  STOP_FLAG,     \* the module-level threading.Event
  pizzas_rows,   \* blast_all: collected rows, one entry per applied StoreResult
  futs,          \* futs[i]: position/outcome of the task submitted for huts[i]
  consumed,      \* futures the orchestrator's result loop has already handled
  opc,           \* position of the orchestrator
  throttledEver, \* history: ids whose Throttled future the orchestrator handled
  reported,      \* ids for which a failure message was printed
  chain,         \* CHAIN_KEY of the harvester that is running
  all_rows,      \* Domino's / Pizza Pizza main: collected rows
  menu,          \* Domino's: the menu document handed to the extractor
  products_by_code,      \* collect_products_and_variants: code -> product dict
  variants_by_code,      \* collect_products_and_variants: code -> variant dict
  product_to_variants,   \* collect_products_and_variants: code -> [variant code]
  added,         \* history: the add_variant registrations in encounter order
  registered,    \* history: the product registrations in encounter order
  xpc,           \* position inside collect_products_and_variants
  fn,            \* the function called on its own (canonicalizers, row builders)
  arg,           \* its argument
  ret,           \* its result, or its accumulators while it loops
  cpc            \* position of that call

vars == <<huts, remaining, STOP_FLAG, pizzas_rows, futs, consumed, opc,
          throttledEver, reported, chain, all_rows,
          menu, products_by_code, variants_by_code, product_to_variants, added,
          registered, xpc, fn, arg, ret, cpc>>

\* the state of the document extractor
extractVars ==
  <<menu, products_by_code, variants_by_code, product_to_variants, added,
    registered, xpc>>

\* the state of a function called on its own
callVars == <<fn, arg, ret, cpc>>

\* the state of the orchestrators
orchVars ==
  <<huts, remaining, STOP_FLAG, pizzas_rows, futs, consumed, opc,
    throttledEver, reported, chain, all_rows>>

\* what the Pizza Hut harvester never touches
nonPH == <<chain, all_rows, extractVars, callVars>>

\* what the Domino's and Pizza Pizza orchestrators never touch
nonMain ==
  <<chain, remaining, STOP_FLAG, pizzas_rows, throttledEver, extractVars, callVars>>

\* ------------------------------------------------------------- helpers
RECURSIVE Count(_, _)
Count(s, x) ==
  IF s = <<>> THEN 0
  ELSE (IF Head(s) = x THEN 1 ELSE 0) + Count(Tail(s), x)

HutLists == UNION {[1..n -> Ids] : n \in 1..MaxHuts}

Tasks == DOMAIN futs

\* a task occupies a pool thread from its start until it returns or raises
Running(i) ==
  futs[i] \in {"check1", "issue1", "wait1", "check2", "issue2", "wait2",
              "menu", "profile", "meta", "products"}
Finished(i) == futs[i] \in {"ok", "empty", "error", "throttled"}
Pending == {i \in Tasks : futs[i] = "pending"}

\* ================================================================ Pizza Hut
\* remaining = {h.get("id") for h in huts if h.get("id")}
InitialRemaining(hs) == {hs[i] : i \in DOMAIN hs} \ {0}

\* batch = [h for h in huts if h.get("id") in remaining]
BatchAll(hs, rem) == DOMAIN hs

Batch(hs, rem) == {i \in DOMAIN hs : hs[i] \in rem}

InitPH ==
  /\ chain = "PH"
  /\ all_rows = <<>>
  /\ huts \in HutLists
  /\ remaining = InitialRemaining(huts)
  /\ STOP_FLAG \in BOOLEAN      \* fetch_huts_with_backoff may leave it either way
  /\ pizzas_rows = <<>>
  /\ futs = [i \in DOMAIN huts |-> "none"]
  /\ consumed = {}
  /\ opc = "loop"
  /\ throttledEver = {}
  /\ reported = {}

\* while remaining: STOP_FLAG.clear(); batch = [...]
blast_all_loop ==
  /\ chain = "PH"
  /\ opc = "loop"
  /\ IF remaining = {}
       THEN /\ opc' = "done"
            /\ UNCHANGED STOP_FLAG
       ELSE /\ opc' = "submit"
            /\ STOP_FLAG' = FALSE
  /\ UNCHANGED <<huts, remaining, pizzas_rows, futs, consumed, throttledEver, reported, nonPH>>

\* futs = {exe.submit(scrape_store, h): h for h in batch}
blast_all_submit ==
  /\ chain = "PH"
  /\ opc = "submit"
  /\ futs' = [i \in DOMAIN huts |->
                IF i \in Batch(huts, remaining) THEN "pending" ELSE "none"]
  /\ consumed' = {}
  /\ opc' = "wave"
  /\ UNCHANGED <<huts, remaining, STOP_FLAG, pizzas_rows, throttledEver, reported, nonPH>>

\* a pool thread takes the oldest queued task and enters scrape_store
FirstStep(c) ==
  CASE c = "PH" -> "check1"
    [] c = "DP" -> "menu"
    [] OTHER    -> "meta"

scrape_store_start(i) ==
  /\ futs[i] = "pending"
  /\ \A j \in Pending : i <= j
  /\ Cardinality({j \in Tasks : Running(j)}) < PoolSize
  /\ futs' = [futs EXCEPT ![i] = FirstStep(chain)]
  /\ UNCHANGED <<huts, remaining, STOP_FLAG, pizzas_rows, consumed, opc,
                 throttledEver, reported, nonPH>>

\* fetch_json: if STOP_FLAG.is_set(): raise Throttled
fetch_json_check(i) ==
  /\ chain = "PH"
  /\ futs[i] \in {"check1", "check2"}
  /\ futs' = [futs EXCEPT ![i] =
                IF STOP_FLAG THEN "throttled"
                ELSE IF futs[i] = "check1" THEN "issue1" ELSE "issue2"]
  /\ UNCHANGED <<huts, remaining, STOP_FLAG, pizzas_rows, consumed, opc,
                 throttledEver, reported, nonPH>>

\* fetch_json: r = get_sess().get(...) -- the request leaves the process
fetch_json_get(i) ==
  /\ chain = "PH"
  /\ futs[i] \in {"issue1", "issue2"}
  /\ futs' = [futs EXCEPT ![i] = IF futs[i] = "issue1" THEN "wait1" ELSE "wait2"]
  /\ UNCHANGED <<huts, remaining, STOP_FLAG, pizzas_rows, consumed, opc,
                 throttledEver, reported, nonPH>>

\* what the upstream can answer to one request
Responses == {"throttle", "none", "data", "raise"}

\* scrape_store after fetch_json returned or raised:
\*   throttle : 429/403/ConnectionError -> STOP_FLAG.set(); raise Throttled
\*   none     : 400/404/5xx/RetryError/undecodable or unusable body -> next params
\*   data     : a product list -> rows, break, return StoreResult
\*   raise    : raise_for_status() or a row-building exception
AfterResponse(pos, resp) ==
  CASE resp = "throttle" -> "throttled"
    [] resp = "data"     -> "ok"
    [] resp = "raise"    -> "error"
    [] OTHER             -> IF pos = "wait1" THEN "check2" ELSE "empty"

fetch_json_response(i) ==
  /\ chain = "PH"
  /\ futs[i] \in {"wait1", "wait2"}
  /\ \E resp \in Responses :
       /\ futs' = [futs EXCEPT ![i] = AfterResponse(futs[i], resp)]
       /\ STOP_FLAG' = IF resp = "throttle" THEN TRUE ELSE STOP_FLAG
  /\ UNCHANGED <<huts, remaining, pizzas_rows, consumed, opc, throttledEver, reported, nonPH>>

\* finally: remaining.discard(sid) -- runs for every handled future
DiscardKeepThrottled(rem, sid, outcome) ==
  IF outcome = "throttled" THEN rem ELSE rem \ {sid}

\* the result loop without its finally clause
DiscardNothing(rem, sid, outcome) == rem

Discard(rem, sid, outcome) == rem \ {sid}

\* except Throttled: ...; break  -- where the result loop goes next
NoBreak(outcome) == "wave"

AfterHandled(outcome) == IF outcome = "throttled" THEN "shutdown" ELSE "wave"

\* pizzas_rows.extend(result.rows)
Extend(rows, sid, outcome) == IF outcome = "ok" THEN Append(rows, sid) ELSE rows

\* one iteration of "for fut in as_completed(futs)": try / except / finally
blast_all_consume(i) ==
  /\ chain = "PH"
  /\ opc = "wave"
  /\ i \in Tasks \ consumed
  /\ Finished(i)
  /\ consumed' = consumed \cup {i}
  /\ pizzas_rows' = Extend(pizzas_rows, huts[i], futs[i])
  /\ remaining' = Discard(remaining, huts[i], futs[i])
  /\ opc' = AfterHandled(futs[i])
  /\ IF futs[i] = "throttled"
       THEN \* for f in futs: f.cancel(); STOP_FLAG.set(); break
            /\ futs' = [j \in Tasks |-> IF futs[j] = "pending" THEN "cancelled" ELSE futs[j]]
            /\ STOP_FLAG' = TRUE
            /\ throttledEver' = throttledEver \cup {huts[i]}
       ELSE UNCHANGED <<futs, STOP_FLAG, throttledEver>>
  /\ reported' = IF futs[i] = "error" THEN reported \cup {huts[i]} ELSE reported
  /\ UNCHANGED <<huts, nonPH>>

\* as_completed is exhausted: every submitted future was handled
blast_all_exhausted ==
  /\ chain = "PH"
  /\ opc = "wave"
  /\ \A i \in Tasks : futs[i] = "none" \/ i \in consumed
  /\ opc' = "shutdown"
  /\ UNCHANGED <<huts, remaining, STOP_FLAG, pizzas_rows, futs, consumed,
                 throttledEver, reported, nonPH>>

\* leaving the pool as shutdown(wait=False) would: no wait for the workers
exit_pool_no_wait ==
  /\ chain = "PH"
  /\ opc = "shutdown"
  /\ opc' = IF remaining # {} /\ STOP_FLAG THEN "cooldown" ELSE "loop"
  /\ UNCHANGED <<huts, remaining, STOP_FLAG, pizzas_rows, futs, consumed,
                 throttledEver, reported, nonPH>>

\* leaving "with ThreadPoolExecutor": shutdown(wait=True), then
\* if remaining and STOP_FLAG.is_set(): sleep
blast_all_exit_pool ==
  /\ chain = "PH"
  /\ opc = "shutdown"
  /\ \A i \in Tasks : ~Running(i) /\ futs[i] # "pending"
  /\ opc' = IF remaining # {} /\ STOP_FLAG THEN "cooldown" ELSE "loop"
  /\ UNCHANGED <<huts, remaining, STOP_FLAG, pizzas_rows, futs, consumed,
                 throttledEver, reported, nonPH>>

\* time.sleep(COOLDOWN_SECS)
blast_all_cooldown ==
  /\ chain = "PH"
  /\ opc = "cooldown"
  /\ opc' = "loop"
  /\ UNCHANGED <<huts, remaining, STOP_FLAG, pizzas_rows, futs, consumed,
                 throttledEver, reported, nonPH>>

NextPH ==
  \/ blast_all_loop
  \/ blast_all_submit
  \/ \E i \in Tasks : fetch_json_check(i)
  \/ \E i \in Tasks : fetch_json_get(i)
  \/ \E i \in Tasks : fetch_json_response(i)
  \/ \E i \in Tasks : blast_all_consume(i)
  \/ blast_all_exhausted
  \/ blast_all_exit_pool
  \/ blast_all_cooldown

\* ================================================================= Domino's
\* store_ids = sorted(set(map(int, re.findall(...)))): distinct, ascending
RECURSIVE Ascending(_)
Ascending(S) ==
  IF S = {} THEN <<>>
  ELSE LET m == CHOOSE x \in S : \A y \in S : x <= y
       IN <<m>> \o Ascending(S \ {m})

StoreIdLists == {Ascending(S) : S \in (SUBSET (1..MaxHuts)) \ {{}}}

\* main: executor.map(scrape_store, store_ids) queues every store at once
InitDP ==
  /\ chain = "DP"
  /\ huts \in StoreIdLists
  /\ futs = [i \in DOMAIN huts |-> "pending"]
  /\ consumed = {}
  /\ opc = "collect"
  /\ all_rows = <<>>
  /\ reported = {}
  /\ remaining = {}
  /\ STOP_FLAG = FALSE
  /\ pizzas_rows = <<>>
  /\ throttledEver = {}

\* except Exception as e: sys.stderr.write(...); return []
StoreError == "failed"

\* scrape_store: the two requests.get(...).json() calls, then the extraction;
\* anything that goes wrong anywhere lands in the except clause
dominos_scrape_store(i) ==
  /\ chain = "DP"
  /\ futs[i] \in {"menu", "profile"}
  /\ \E good \in BOOLEAN :
       IF good
         THEN /\ futs' = [futs EXCEPT ![i] = IF futs[i] = "menu" THEN "profile" ELSE "ok"]
              /\ UNCHANGED reported
         ELSE /\ futs' = [futs EXCEPT ![i] = StoreError]
              /\ reported' = reported \cup {huts[i]}
  /\ UNCHANGED <<huts, consumed, opc, all_rows, nonMain>>

\* for batch in executor.map(...): all_rows.extend(batch) -- results come in
\* submission order; a raised result would propagate out of main
dominos_main_collect ==
  /\ chain = "DP"
  /\ opc = "collect"
  /\ \E i \in Tasks \ consumed :
       /\ \A j \in Tasks \ consumed : i <= j
       /\ futs[i] \in {"ok", "failed", "raised"}
       /\ consumed' = consumed \cup {i}
       /\ all_rows' = IF futs[i] = "ok" THEN Append(all_rows, huts[i]) ELSE all_rows
       /\ opc' = IF futs[i] = "raised" THEN "aborted" ELSE "collect"
  /\ UNCHANGED <<huts, futs, reported, nonMain>>

\* the pool is drained; the frame is filtered and written
main_finish ==
  /\ chain \in {"DP", "PP"}
  /\ opc = "collect"
  /\ consumed = Tasks
  /\ opc' = "done"
  /\ UNCHANGED <<huts, futs, consumed, all_rows, reported, nonMain>>

NextDP ==
  \/ \E i \in Tasks : dominos_scrape_store(i)
  \/ dominos_main_collect

\* ============================================================== Pizza Pizza
\* ids = list(parse_id_range(args.ids)): any list of store ids
IdLists == UNION {[1..n -> 1..NumIds] : n \in 1..MaxHuts}

\* futs = {ex.submit(scrape_store, sid, today_local): sid for sid in ids}
InitPP ==
  /\ chain = "PP"
  /\ huts \in IdLists
  /\ futs = [i \in DOMAIN huts |-> "pending"]
  /\ consumed = {}
  /\ opc = "collect"
  /\ all_rows = <<>>
  /\ reported = {}
  /\ remaining = {}
  /\ STOP_FLAG = FALSE
  /\ pizzas_rows = <<>>
  /\ throttledEver = {}

\* scrape_store: meta = fetch_store_meta(...); if not meta: return []
\* (fetch_store_meta turns every get_json failure into None)
pizza_pizza_store_meta(i) ==
  /\ chain = "PP"
  /\ futs[i] = "meta"
  /\ \E good \in BOOLEAN :
       futs' = [futs EXCEPT ![i] = IF good THEN "products" ELSE "empty"]
  /\ UNCHANGED <<huts, consumed, opc, all_rows, reported, nonMain>>

\* scrape_store: products = discover_pizza_products(...); if not products:
\* return []; otherwise the rows are built, which may raise
pizza_pizza_store_products(i) ==
  /\ chain = "PP"
  /\ futs[i] = "products"
  /\ \E out \in {"ok", "empty", "error"} : futs' = [futs EXCEPT ![i] = out]
  /\ UNCHANGED <<huts, consumed, opc, all_rows, reported, nonMain>>

\* except Exception: pass   # keep going if a single store fails
StoreFailureAborts(outcome) == IF outcome = "error" THEN "aborted" ELSE "collect"

AfterStoreFuture(outcome) == "collect"

\* for fut in as_completed(futs): try: all_rows.extend(fut.result())
pizza_pizza_main_collect(i) ==
  /\ chain = "PP"
  /\ opc = "collect"
  /\ i \in Tasks \ consumed
  /\ futs[i] \in {"ok", "empty", "error"}
  /\ consumed' = consumed \cup {i}
  /\ all_rows' = IF futs[i] = "ok" THEN Append(all_rows, huts[i]) ELSE all_rows
  /\ opc' = AfterStoreFuture(futs[i])
  /\ UNCHANGED <<huts, futs, reported, nonMain>>

NextPP ==
  \/ \E i \in Tasks : pizza_pizza_store_meta(i)
  \/ \E i \in Tasks : pizza_pizza_store_products(i)
  \/ \E i \in Tasks : pizza_pizza_main_collect(i)

\* ===================================================== Domino's extractor
(* JSON values.  A text value is a tuple: <<>> is an absent key, <<"">> the   *)
(* empty string, <<"V1">> the string V1, and <<"P1", 2>> the string P1__v002  *)
(* (a plain string never contains "__v").  A price is <<>> or <<number>>.     *)
(* A dict keeps the scalar keys the walk reads as fields and its container    *)
(* values, in document order, in items.                                       *)
\* longest list of nodes under the menu
MaxList == 2
\* longest inline "Variants" list of a product node
MaxInline == 1

Absent == <<>>
Falsy(x) == x = Absent \/ x = <<"">>
Or(a, b) == IF Falsy(a) THEN b ELSE a

Dict(code, vcode, pcode, price, ptype, items) ==
  [t |-> "dict", Code |-> code, VariantCode |-> vcode, ProductCode |-> pcode,
   Price |-> price, ProductType |-> ptype, items |-> items]
List(elems) == [t |-> "list", elems |-> elems]
Item(k, v) == [k |-> k, v |-> v]

HasKey(obj, k) == \E n \in DOMAIN obj.items : obj.items[n].k = k
Get(obj, k) ==
  LET n == CHOOSE n \in DOMAIN obj.items :
             obj.items[n].k = k /\ \A m \in 1..(n - 1) : obj.items[m].k # k
  IN obj.items[n].v

Put(f, k, v) == [x \in (DOMAIN f) \cup {k} |-> IF x = k THEN v ELSE f[x]]
Lookup(f, k, dflt) == IF k \in DOMAIN f THEN f[k] ELSE dflt

\* vcode = f"{pcode}__v{idx + 1:03d}"
SynthCode(pcode, idx) == Append(pcode, idx + 1)

\* variants_by_code[vcode] = v
StoreVariant(vbc, vcode, v) == Put(vbc, vcode, v)

\* add_variant(vcode, v, pcode) on the accumulators st
add_variant(vcode, v, pcode, st) ==
  IF Falsy(pcode) THEN st
  ELSE LET lst   == Lookup(st.product_to_variants, pcode, <<>>)
           synth == Falsy(vcode)
           vc    == IF synth THEN SynthCode(pcode, Len(lst)) ELSE vcode
           val   == [v |-> v, Synthesized |-> synth]
       IN [st EXCEPT
             !.variants_by_code = StoreVariant(st.variants_by_code, vc, val),
             !.product_to_variants = Put(st.product_to_variants, pcode, Append(lst, vc)),
             !.added = Append(st.added, [vcode |-> vc, pcode |-> pcode, v |-> v])]

\* for k, v in obj.items(): if products_by_code[pcode].get(k) in (None, ""):
\*     products_by_code[pcode][k] = v
\* (a value kept in items is a list, a dict, or a text; only a text can be "")
RECURSIVE MergeItems(_, _)
MergeItems(old, items) ==
  IF items = <<>> THEN old
  ELSE LET k == Head(items).k
           Empty(v) == v.t = "text" /\ v.s = <<>>
       IN MergeItems(
            IF ~HasKey(old, k) THEN [old EXCEPT !.items = Append(old.items, Head(items))]
            ELSE IF Empty(Get(old, k))
              THEN [old EXCEPT !.items =
                      [n \in DOMAIN old.items |->
                         IF old.items[n].k = k THEN Head(items) ELSE old.items[n]]]
            ELSE old,
            Tail(items))

\* the merge that lets the later occurrence replace what is stored
MergeLast(old, new) ==
  [new EXCEPT !.Code = Or(new.Code, old.Code),
              !.Price = IF new.Price = Absent THEN old.Price ELSE new.Price,
              !.ProductType = old.ProductType \/ new.ProductType,
              !.items = MergeItems(new, old.items).items]

MergeMissing(old, new) ==
  MergeItems([old EXCEPT !.Code = Or(old.Code, new.Code),
                         !.VariantCode = Or(old.VariantCode, new.VariantCode),
                         !.ProductCode = Or(old.ProductCode, new.ProductCode),
                         !.Price = IF old.Price = Absent THEN new.Price ELSE old.Price,
                         !.ProductType = old.ProductType \/ new.ProductType],
             new.items)

\* the "if looks_like_product:" block of walk
register_product(obj, st) ==
  LET pcode == obj.Code
  IN IF Falsy(pcode) THEN st
     ELSE IF pcode \notin DOMAIN st.products_by_code
       THEN [st EXCEPT !.products_by_code = Put(st.products_by_code, pcode, obj),
                       !.registered = Append(st.registered, Item(pcode, obj))]
       ELSE [st EXCEPT !.products_by_code =
               Put(st.products_by_code, pcode,
                   MergeMissing(st.products_by_code[pcode], obj)),
                       !.registered = Append(st.registered, Item(pcode, obj))]

\* the 'if "Variants" in obj' block of walk: the inline variants
RECURSIVE inline_variants(_, _, _, _)
inline_variants(isDict, entries, pcode_inline, st) ==
  IF entries = <<>> THEN st
  ELSE LET k == Head(entries).k
           v == Head(entries).v
           st1 == IF v.t # "dict" THEN st
                  ELSE add_variant(IF isDict THEN k ELSE Or(v.Code, v.VariantCode),
                                   v, Or(v.ProductCode, pcode_inline), st)
       IN inline_variants(isDict, Tail(entries), pcode_inline, st1)

\* a list as the entries of a container: the elements, without keys
Elems(val) ==
  IF val.t = "list" THEN [n \in DOMAIN val.elems |-> Item(Absent, val.elems[n])]
  ELSE val.items

KeyVariants == <<"Variants">>
KeyProducts == <<"Products">>

RECURSIVE walk(_, _)
walk(obj, st) ==
  IF obj.t = "dict" THEN
    LET has_product_code == obj.ProductCode # Absent
        looks_like_product ==
          (~has_product_code) /\ (obj.ProductType \/ HasKey(obj, KeyVariants))
        looks_like_variant ==
          has_product_code /\ (obj.Price # Absent \/ obj.VariantCode # Absent)
        st1 == IF looks_like_product THEN register_product(obj, st) ELSE st
        st2 == IF looks_like_variant
                 THEN add_variant(Or(obj.Code, obj.VariantCode), obj, obj.ProductCode, st1)
                 ELSE st1
        st3 == IF HasKey(obj, KeyVariants) /\ Get(obj, KeyVariants).t \in {"list", "dict"}
                 THEN inline_variants(Get(obj, KeyVariants).t = "dict",
                                      Elems(Get(obj, KeyVariants)),
                                      Or(obj.Code, obj.ProductCode), st2)
                 ELSE st2
    IN walk(List([n \in DOMAIN obj.items |-> obj.items[n].v]), st3)
  ELSE IF obj.t = "list" THEN
    IF obj.elems = <<>> THEN st
    ELSE walk(List(Tail(obj.elems)), walk(Head(obj.elems), st))
  ELSE st

\* if isinstance(menu.get("Products"), dict): products_by_code[str(pcode)] = prod
RECURSIVE preload_products(_, _)
preload_products(entries, pbc) ==
  IF entries = <<>> THEN pbc
  ELSE preload_products(Tail(entries),
         IF Head(entries).v.t = "dict" THEN Put(pbc, Head(entries).k, Head(entries).v)
         ELSE pbc)

\* the entries that loop stores, in the order it stores them
preloaded(entries) == SelectSeq(entries, LAMBDA e : e.v.t = "dict")

\* the de-dupe loop: seen / uniq
KeepAll(lst) == lst

RECURSIVE Uniq(_)
Uniq(lst) ==
  IF lst = <<>> THEN <<>>
  ELSE LET init == Uniq(SubSeq(lst, 1, Len(lst) - 1))
           last == lst[Len(lst)]
       IN IF \E n \in DOMAIN init : init[n] = last THEN init ELSE Append(init, last)

\* ------------------------------------------------ the documents explored
SeqsUpTo(S, n) == UNION {[1..m -> S] : m \in 0..n}

\* a node that carries only scalar keys
LeafNodes ==
  {Dict(c, Absent, pc, pr, FALSE, <<>>) :
     c \in {Absent, <<"V1">>}, pc \in {Absent, <<"P1">>},
     pr \in {Absent, <<10>>, <<12>>}}

\* the nodes listed inline under a product's "Variants" key
InlineNodes ==
  {Dict(c, Absent, pc, <<10>>, FALSE, <<>>) :
     c \in {Absent, <<"V1">>}, pc \in {Absent, <<"P1">>}}

\* a node with a product hint key: ProductType, or an inline "Variants" list
ProductNodes ==
  {Dict(<<"P1">>, Absent, Absent, pr, TRUE, <<>>) : pr \in {Absent, <<12>>}}
  \cup {Dict(<<"P1">>, Absent, Absent, Absent, FALSE, <<Item(KeyVariants, List(vs))>>) :
          vs \in SeqsUpTo(InlineNodes, MaxInline)}

\* the "Products" mapping of the menu, when it is there
ProductMaps ==
  {<<>>,
   <<Item(KeyProducts,
          Dict(Absent, Absent, Absent, Absent, FALSE,
               <<Item(<<"P1">>, Dict(<<"P1">>, Absent, Absent, <<10>>, TRUE, <<>>))>>))>>}

\* a JSON object that holds the nodes ns under the keys K1, K2, ...
ItemKeys == <<  <<"K1">>, <<"K2">>, <<"K3">>, <<"K4">>  >>
Mapping(ns) ==
  Dict(Absent, Absent, Absent, Absent, FALSE,
       [n \in DOMAIN ns |-> Item(ItemKeys[n], ns[n])])

Menus ==
  {Dict(Absent, Absent, Absent, Absent, FALSE,
        pm \o <<Item(<<"Items">>, Mapping(ns))>>) :
     pm \in ProductMaps, ns \in SeqsUpTo(LeafNodes \cup ProductNodes, MaxList)}

EmptyMenu == Dict(Absent, Absent, Absent, Absent, FALSE, <<>>)

ExtractIdle ==
  /\ menu = EmptyMenu
  /\ products_by_code = <<>>
  /\ variants_by_code = <<>>
  /\ product_to_variants = <<>>
  /\ added = <<>>
  /\ registered = <<>>
  /\ xpc = "idle"

OrchIdle ==
  /\ chain = "DP"
  /\ huts = <<>>
  /\ futs = <<>>
  /\ consumed = {}
  /\ opc = "idle"
  /\ all_rows = <<>>
  /\ reported = {}
  /\ remaining = {}
  /\ STOP_FLAG = FALSE
  /\ pizzas_rows = <<>>
  /\ throttledEver = {}

CallIdle ==
  /\ fn = "idle"
  /\ arg = <<>>
  /\ ret = <<>>
  /\ cpc = "idle"

\* collect_products_and_variants(menu) is entered
InitExtract ==
  /\ OrchIdle
  /\ CallIdle
  /\ menu \in Menus
  /\ products_by_code = <<>>
  /\ variants_by_code = <<>>
  /\ product_to_variants = <<>>
  /\ added = <<>>
  /\ registered = <<>>
  /\ xpc = "start"

\* the accumulators after the Products mapping is loaded and walk(m) has run
Walked(m) ==
  LET ents == IF HasKey(m, KeyProducts) /\ Get(m, KeyProducts).t = "dict"
                THEN Get(m, KeyProducts).items ELSE <<>>
  IN walk(m, [products_by_code |-> preload_products(ents, <<>>),
              variants_by_code |-> <<>>, product_to_variants |-> <<>>,
              added |-> <<>>, registered |-> preloaded(ents)])

\* the three accumulators are created, the Products mapping is loaded and
\* walk(menu) runs
collect_walk ==
  /\ xpc = "start"
  /\ LET st == Walked(menu)
     IN /\ products_by_code' = st.products_by_code
        /\ variants_by_code' = st.variants_by_code
        /\ product_to_variants' = st.product_to_variants
        /\ added' = st.added
        /\ registered' = st.registered
  /\ xpc' = "dedupe"
  /\ UNCHANGED <<menu, orchVars, callVars>>

\* "de-dupe per product", then return
collect_dedupe ==
  /\ xpc = "dedupe"
  /\ product_to_variants' =
       [p \in DOMAIN product_to_variants |-> Uniq(product_to_variants[p])]
  /\ xpc' = "done"
  /\ UNCHANGED <<menu, products_by_code, variants_by_code, added, registered,
                 orchVars, callVars>>

NextExtract == collect_walk \/ collect_dedupe

SpecExtract == InitExtract /\ [][NextExtract]_vars

\* ============================================================ specification
Init == (InitPH \/ InitDP \/ InitPP) /\ ExtractIdle /\ CallIdle

Next ==
  \/ \E i \in Tasks : scrape_store_start(i)
  \/ NextPH
  \/ NextDP
  \/ NextPP
  \/ main_finish

Spec == Init /\ [][Next]_vars

\* every thread keeps running and every request ends (answer or timeout)
FairSpec == Spec /\ WF_vars(Next)

\* ------------------------------------------------------- blast_all claims
\* the orchestrator handles future i in this step
Handles(i) == opc = "wave" /\ i \in Tasks /\ i \notin consumed /\ i \in consumed'

\* C1: when the orchestrator handles the Throttled future of a target, the
\* target stays in remaining (to be submitted again after the cooldown) and
\* STOP_FLAG is set.
C1_ThrottledTargetStays ==
  [][\A i \in Tasks :
       (Handles(i) /\ futs[i] = "throttled") => (huts[i] \in remaining' /\ STOP_FLAG')]_vars

\* C2: while STOP_FLAG is set no worker thread sends an HTTP GET.
C2_NoGetWhileStopped ==
  [][\A i \in Tasks :
       (futs[i] \in {"issue1", "issue2"} /\ futs'[i] \in {"wait1", "wait2"})
         => ~STOP_FLAG]_vars

\* C3: a target leaves remaining only in a step that handles one of its
\* futures whose outcome is a returned StoreResult or a non-Throttled exception.
C3_RemovedOnlyOnTerminal ==
  [][\A id \in remaining \ remaining' :
       \E i \in Tasks : /\ Handles(i)
                        /\ huts[i] = id
                        /\ futs[i] \in {"ok", "empty", "error"}]_vars

\* C4: the wave loop is left only with remaining empty, and it is always
\* left eventually, whatever the upstream answers.
C4_WaveLoopTerminates ==
  /\ [](opc = "done" => remaining = {})
  /\ (chain = "PH" => <>(opc = "done"))

\* the run ended although every target was answered with a throttle signal
C4_Witness ==
  /\ chain = "PH"
  /\ opc = "done"
  /\ Cardinality(throttledEver) >= 2
  /\ throttledEver = InitialRemaining(huts)
  /\ pizzas_rows = <<>>

\* C5 (as stated): a wave is submitted with the flag clear, with exactly one
\* task per member of remaining and none for a target outside remaining.
C5_OneTaskPerMember ==
  [][(opc = "submit" /\ opc' = "wave") =>
       /\ ~STOP_FLAG
       /\ \A i \in Tasks : futs'[i] = "pending" => huts[i] \in remaining
       /\ \A id \in remaining :
            Cardinality({i \in Tasks : futs'[i] = "pending" /\ huts[i] = id}) = 1]_vars

\* C5 (amended): a wave is submitted with the flag clear, with one task per
\* entry of the hut list whose id is in remaining (so at least one per member,
\* and exactly one when that id is listed once) and none for any other entry.
C5_OneTaskPerListedHut ==
  [][(opc = "submit" /\ opc' = "wave") =>
       /\ ~STOP_FLAG
       /\ \A i \in Tasks : futs'[i] = "pending" <=> huts[i] \in remaining
       /\ \A i \in Tasks : futs'[i] \in {"pending", "none"}
       /\ \A id \in remaining :
            Cardinality({i \in Tasks : futs'[i] = "pending" /\ huts[i] = id})
              = Count(huts, id)]_vars

\* a wave after a cooldown: some listed huts are resubmitted, others are not
C5_Witness ==
  /\ opc = "wave"
  /\ consumed = {}
  /\ throttledEver # {}
  /\ \E i \in Tasks : futs[i] = "pending"
  /\ \E i \in Tasks : futs[i] = "none" /\ huts[i] # 0

\* C6 (as stated): when the wave was interrupted by a throttle signal, every
\* task that completed successfully has had its result applied.
C6_RacingSuccessApplied ==
  opc = "cooldown" =>
    \A i \in Tasks : futs[i] = "ok" => (i \in consumed /\ huts[i] \notin remaining)

\* C6 (amended): a successful task's result is applied exactly when its future
\* is handled, and no future is handled after a Throttled one: a success that
\* was not handled by then is dropped and its target waits for the next wave.
C6_AppliedIffHandled ==
  /\ (\E j \in consumed : futs[j] = "throttled") => opc # "wave"
  /\ \A i \in Tasks :
       (chain = "PH" /\ futs[i] = "ok") =>
         Count(pizzas_rows, huts[i])
           = Cardinality({j \in consumed : huts[j] = huts[i] /\ futs[j] = "ok"})
  /\ \A i \in consumed : (chain = "PH" /\ futs[i] = "ok") => huts[i] \notin remaining
  /\ \A i \in Tasks \ consumed :
       (/\ futs[i] = "ok"
        /\ opc = "cooldown"
        /\ \A j \in consumed : huts[j] # huts[i]) => huts[i] \in remaining

\* the cooldown starts with a success that completed but was never handled:
\* its rows are not in the output and its target is still in remaining
C6_Witness ==
  /\ opc = "cooldown"
  /\ \E j \in consumed : futs[j] = "throttled"
  /\ \E i \in Tasks \ consumed :
       futs[i] = "ok" /\ huts[i] \in remaining /\ Count(pizzas_rows, huts[i]) = 0

\* ------------------------------------------------- error-handling claims
\* the output collected by the running orchestrator
Collected == IF chain = "PH" THEN pizzas_rows ELSE all_rows

C8_FailuresReported ==
  \A i \in consumed : futs[i] \in {"error", "failed", "raised"} => huts[i] \in reported

\* ------------------------------------------------------ extractor claims
NoRepeat(lst) == \A m, n \in DOMAIN lst : lst[m] = lst[n] => m = n

\* C9: after collect_products_and_variants returns, no product's variant
\* list holds the same variant code twice.
C9_VariantCodesUnique ==
  xpc = "done" => \A p \in DOMAIN product_to_variants : NoRepeat(product_to_variants[p])

\* a product registered the same explicit code twice next to a synthesized one
C9_Witness ==
  /\ xpc = "done"
  /\ \E p \in DOMAIN product_to_variants :
       /\ Cardinality({n \in DOMAIN added : added[n].pcode = p})
            > Len(product_to_variants[p])
       /\ \E m, n \in DOMAIN product_to_variants[p] :
            /\ Len(product_to_variants[p][m]) = 1
            /\ Len(product_to_variants[p][n]) = 2

\* the data of the first node registered under variant code vc
FirstAdded(vc) ==
  LET n == CHOOSE n \in DOMAIN added :
             added[n].vcode = vc /\ \A m \in 1..(n - 1) : added[m].vcode # vc
  IN added[n].v

\* C10: the data stored for a variant code, its price included, is the data
\* of the first node registered under that code.
C10_FirstSeenKept ==
  xpc \in {"dedupe", "done"} =>
    \A vc \in DOMAIN variants_by_code : variants_by_code[vc].v = FirstAdded(vc)

\* the variant nodes of product p in the document, in document order, each
\* node once, by the code it carries: a node with ProductCode p and a variant
\* hint key, or an element of a "Variants" container that refers to p or
\* inherits p from the node that holds the container
RECURSIVE variant_nodes(_, _)
variant_nodes(work, p) ==
  IF work = <<>> THEN <<>>
  ELSE LET h == Head(work)
           o == h.v
           Kid(v, mode, pin) == [v |-> v, mode |-> mode, pin |-> pin]
       IN IF o.t = "list" THEN
            variant_nodes(
              [n \in DOMAIN o.elems |->
                 Kid(o.elems[n], IF h.mode = "variants" THEN "inline" ELSE "node", h.pin)]
              \o Tail(work), p)
          ELSE IF o.t = "dict" THEN
            LET referred == IF h.mode = "inline" THEN Or(o.ProductCode, h.pin)
                            ELSE IF o.Price # Absent \/ o.VariantCode # Absent
                                   THEN o.ProductCode ELSE Absent
                here == IF h.mode # "variants" /\ referred = p
                          THEN << Or(o.Code, o.VariantCode) >> ELSE <<>>
                kids == [n \in DOMAIN o.items |->
                           IF h.mode = "variants"
                             THEN Kid(o.items[n].v, "inline", h.pin)
                           ELSE IF o.items[n].k = KeyVariants
                             THEN Kid(o.items[n].v, "variants", Or(o.Code, o.ProductCode))
                           ELSE Kid(o.items[n].v, "node", Absent)]
            IN here \o variant_nodes(kids \o Tail(work), p)
          ELSE variant_nodes(Tail(work), p)

VariantNodesOf(m, p) == variant_nodes(<<[v |-> m, mode |-> "node", pin |-> Absent]>>, p)

ProductCodes == {<<"P1">>}

\* the number of registrations under pcode before the n-th one
RegisteredBefore(n) ==
  Cardinality({m \in 1..(n - 1) : added[m].pcode = added[n].pcode})

\* C11: a product whose variant nodes are one with the explicit code V1
\* followed by one without a code ends with exactly two variants, the second
\* one under the synthesized code <product>__v002; and every synthesized code
\* is <product>__v<NNN> with NNN one more than the number of variants already
\* registered under that product.
C11_SynthesizedOrdinal ==
  xpc = "done" =>
    /\ \A p \in ProductCodes :
         VariantNodesOf(menu, p) = << <<"V1">>, Absent >> =>
           Lookup(product_to_variants, p, <<>>) = << <<"V1">>, SynthCode(p, 1) >>
    /\ \A n \in DOMAIN added :
         Len(added[n].vcode) = 2 =>
           added[n].vcode = SynthCode(added[n].pcode, RegisteredBefore(n))

KeyItems == <<"Items">>

\* the document m with the keys of its "Items" mapping in the order perm
Reordered(m, perm) ==
  [m EXCEPT !.items =
     [n \in DOMAIN m.items |->
        IF m.items[n].k = KeyItems
          THEN Item(KeyItems,
                    [m.items[n].v EXCEPT !.items =
                       [j \in DOMAIN m.items[n].v.items |-> m.items[n].v.items[perm[j]]]])
          ELSE m.items[n]]]

\* what collect_products_and_variants(m) returns
Returned(m) ==
  LET st == Walked(m)
  IN [products_by_code |-> st.products_by_code,
      variants_by_code |-> st.variants_by_code,
      product_to_variants |->
        [p \in DOMAIN st.product_to_variants |-> Uniq(st.product_to_variants[p])]]

\* C12: collect_products_and_variants returns the same products, variant
\* codes per product and data per variant code when it runs again on the
\* same document, and when the keys of the document's "Items" mapping are
\* visited in any other order.
C12_OrderIndependent ==
  xpc = "done" =>
    /\ Returned(menu) = [products_by_code |-> products_by_code,
                         variants_by_code |-> variants_by_code,
                         product_to_variants |-> product_to_variants]
    /\ \A perm \in Permutations(DOMAIN Get(menu, KeyItems).items) :
         Returned(Reordered(menu, perm)) = Returned(menu)

\* the nodes registered under product code p, in encounter order
Occurrences(p) ==
  LET regs == SelectSeq(registered, LAMBDA e : e.k = p)
  IN [n \in DOMAIN regs |-> regs[n].v]

\* the first occurrence that passes Test
First(occ, Test(_)) ==
  occ[CHOOSE n \in DOMAIN occ : Test(occ[n]) /\ \A m \in 1..(n - 1) : ~Test(occ[m])]

\* C14: the product stored under a code has, for every field, the first
\* non-empty value among the nodes registered under that code in encounter
\* order: a later node fills what is missing and never replaces a value.
C14_FirstNonEmptyWins ==
  xpc \in {"dedupe", "done"} =>
    \A p \in DOMAIN products_by_code :
      LET occ    == Occurrences(p)
          stored == products_by_code[p]
          HasPrice(o) == o.Price # Absent
          HasCode(o)  == ~Falsy(o.Code)
      IN /\ occ # <<>>
         /\ stored.Price = IF \E n \in DOMAIN occ : HasPrice(occ[n])
                             THEN First(occ, HasPrice).Price ELSE Absent
         /\ (\E n \in DOMAIN occ : HasCode(occ[n])) => stored.Code = First(occ, HasCode).Code
         /\ stored.ProductType = (\E n \in DOMAIN occ : occ[n].ProductType)
         /\ \A n \in DOMAIN occ : \A j \in DOMAIN occ[n].items :
              LET k == occ[n].items[j].k
                  Holds(o) == HasKey(o, k)
              IN HasKey(stored, k) /\ Get(stored, k) = Get(First(occ, Holds), k)
         /\ \A j \in DOMAIN stored.items :
              \E n \in DOMAIN occ : HasKey(occ[n], stored.items[j].k)

\* a product was registered three times: its price was set by the first node
\* and a later node carried another price, and a later node brought the
\* "Variants" key the earlier ones lacked
C14_Witness ==
  /\ xpc = "done"
  /\ \E p \in DOMAIN products_by_code :
       LET occ == Occurrences(p)
       IN /\ \E m, n \in DOMAIN occ :
               /\ m < n
               /\ occ[m].Price # Absent
               /\ occ[n].Price # Absent
               /\ occ[n].Price # occ[m].Price
               /\ products_by_code[p].Price = occ[m].Price
          /\ \E n \in DOMAIN occ :
               /\ n > 1
               /\ HasKey(occ[n], KeyVariants)
               /\ ~HasKey(occ[1], KeyVariants)
               /\ HasKey(products_by_code[p], KeyVariants)

\* ===================================================================== text
(* A text is the sequence of its characters; <<>> is the empty string, which  *)
(* also stands for None where the source tests a value for truth.            *)
DigitChars == {"0", "1", "2", "3", "4", "5", "6", "7", "8", "9"}
UpperChars == <<"A", "B", "C", "D", "E", "F", "G", "H", "I", "J", "K", "L", "M", "N", "O", "P", "Q", "R", "S", "T", "U", "V", "W", "X", "Y", "Z">>
LowerChars == <<"a", "b", "c", "d", "e", "f", "g", "h", "i", "j", "k", "l", "m", "n", "o", "p", "q", "r", "s", "t", "u", "v", "w", "x", "y", "z">>
IsDigit(c) == c \in DigitChars
IsSpace(c) == c = " "
IsUpper(c) == \E i \in DOMAIN UpperChars : UpperChars[i] = c
IsWordChar(c) ==
  IsDigit(c) \/ IsUpper(c) \/ c = "_" \/ \E i \in DOMAIN LowerChars : LowerChars[i] = c

\* str.lower()
lower(s) ==
  [n \in DOMAIN s |->
     IF IsUpper(s[n])
       THEN LowerChars[CHOOSE i \in DOMAIN UpperChars : UpperChars[i] = s[n]]
       ELSE s[n]]

\* str.strip()
RECURSIVE lstrip(_)
lstrip(s) == IF s # <<>> /\ IsSpace(Head(s)) THEN lstrip(Tail(s)) ELSE s
RECURSIVE rstrip(_)
rstrip(s) ==
  IF s # <<>> /\ IsSpace(s[Len(s)]) THEN rstrip(SubSeq(s, 1, Len(s) - 1)) ELSE s
strip(s) == rstrip(lstrip(s))

\* str.replace(a, b) for single characters
replace(s, a, b) == [n \in DOMAIN s |-> IF s[n] = a THEN b ELSE s[n]]

\* pat occurs in s at position i
StartsAt(s, i, pat) ==
  i >= 1 /\ i + Len(pat) - 1 <= Len(s) /\ SubSeq(s, i, i + Len(pat) - 1) = pat
\* pat in s
Contains(s, pat) == \E i \in 1..Len(s) : StartsAt(s, i, pat)

\* the number of digits that follow each other from position i on
RECURSIVE RunLen(_, _)
RunLen(s, i) == IF i <= Len(s) /\ IsDigit(s[i]) THEN 1 + RunLen(s, i + 1) ELSE 0

\* the first position after i - 1 that holds no white space
RECURSIVE SkipSpaces(_, _)
SkipSpaces(s, i) == IF i <= Len(s) /\ IsSpace(s[i]) THEN SkipSpaces(s, i + 1) ELSE i

\* regex \b in front of position i
Boundary(s, i) ==
  (i > 1 /\ i - 1 <= Len(s) /\ IsWordChar(s[i - 1])) # (i <= Len(s) /\ IsWordChar(s[i]))

\* the smallest member of a non-empty set of positions
Least(S) == CHOOSE i \in S : \A j \in S : i <= j

\* the words joined into one text
RECURSIVE Concat(_)
Concat(ws) == IF ws = <<>> THEN <<>> ELSE Head(ws) \o Concat(Tail(ws))

\* ------------------------------------------- Pizza Hut: normalize_size
Personal == <<"P", "e", "r", "s", "o", "n", "a", "l">>
Small == <<"S", "m", "a", "l", "l">>
Medium == <<"M", "e", "d", "i", "u", "m">>
Large == <<"L", "a", "r", "g", "e">>
XLarge == <<"X", "-", "L", "a", "r", "g", "e">>
Quote == "\""

\* _NUM_INCH: one of the listed numbers with no digit before or after it
NUM_INCH ==
  {<<"8">>, <<"9">>, <<"1", "0">>, <<"1", "1">>, <<"1", "2">>, <<"1", "3">>, <<"1", "4">>, <<"1", "5">>, <<"1", "6">>,
   <<"1", "8">>, <<"2", "0">>, <<"2", "2">>, <<"2", "4">>}

\* _NUM_INCH.search(s): group 1 of the leftmost match, <<>> without a match
NumInchSearch(s) ==
  LET hits == {i \in 1..Len(s) :
                 /\ i = 1 \/ ~IsDigit(s[i - 1])
                 /\ RunLen(s, i) >= 1
                 /\ SubSeq(s, i, i + RunLen(s, i) - 1) \in NUM_INCH}
  IN IF hits = {} THEN <<>>
     ELSE SubSeq(s, Least(hits), Least(hits) + RunLen(s, Least(hits)) - 1)

normalize_size(size_val, fallback_from_text) ==
  LET s0 == replace(lower(strip(size_val)), "_", "-")
      s  == IF s0 = <<>> /\ fallback_from_text # <<>>
              THEN lower(strip(fallback_from_text)) ELSE s0
      m  == NumInchSearch(s)
  IN IF m # <<>> THEN Append(m, Quote)
     ELSE IF Contains(s, <<"p", "e", "r", "s", "o", "n", "a", "l">>) THEN Personal
     ELSE IF Contains(s, <<"s", "m", "a", "l", "l">>) THEN Small
     ELSE IF Contains(s, <<"m", "e", "d", "i", "u", "m">>) THEN Medium
     ELSE IF Contains(s, <<"l", "a", "r", "g", "e">>) THEN Large
     ELSE IF Contains(s, <<"x", "-", "l", "a", "r", "g", "e">>) \/ Contains(s, <<"x", "l", "a", "r", "g", "e">>) \/ Contains(s, <<"x", "l">>)
       THEN XLarge
     ELSE Medium

\* ------------------------------------------ Pizza Pizza: _canonical_size
INCHES ==
  {<<"1", "0">>, <<"1", "1">>, <<"1", "2">>, <<"1", "3">>, <<"1", "4">>, <<"1", "5">>, <<"1", "6">>, <<"1", "8">>, <<"2", "0">>,
   <<"2", "2">>, <<"2", "4">>}

PartyLabels ==
  {<<"p", "a", "r", "t", "y">>, <<"p", "a", "r", "t", "y", " ", "s", "i", "z", "e">>, <<"p", "a", "r", "t", "y", " ", "x", "l">>, <<"p", "a", "r", "t", "y", " ", "p", "i", "z", "z", "a">>, <<"s", "q", "u", "a", "r", "e", " ", "p", "a", "r", "t", "y">>}

\* _INCHES_RX.search(label): a listed number, no digit before it, then white
\* space and the inch sign
InchesSearch(label) ==
  LET hits == {i \in 1..Len(label) :
                 /\ i = 1 \/ ~IsDigit(label[i - 1])
                 /\ i + 1 <= Len(label)
                 /\ SubSeq(label, i, i + 1) \in INCHES
                 /\ StartsAt(label, SkipSpaces(label, i + 2), <<Quote>>)}
  IN IF hits = {} THEN <<>> ELSE SubSeq(label, Least(hits), Least(hits) + 1)

_canonical_size(label) ==
  LET s == lower(strip(label))
      m == InchesSearch(label)
  IN IF Contains(s, <<"x", "x", "l">>) \/ Contains(s, <<"x", " ", "x", " ", "l">>) THEN <<"X", "x", "l">>
     ELSE IF s \in PartyLabels THEN <<"P", "a", "r", "t", "y">>
     ELSE IF Contains(s, <<"x", "-", "l", "a", "r", "g", "e">>) \/ Contains(s, <<"x", " ", "l", "a", "r", "g", "e">>) \/ s = <<"x", "l">>
       THEN XLarge
     ELSE IF Contains(s, <<"l", "a", "r", "g", "e">>) /\ ~Contains(s, <<"x">>) THEN Large
     ELSE IF Contains(s, <<"m", "e", "d", "i", "u", "m">>) THEN Medium
     ELSE IF Contains(s, <<"s", "m", "a", "l", "l">>) THEN Small
     ELSE IF Contains(s, <<"t", "w", "i", "n">>) THEN <<"T", "w", "i", "n">>
     ELSE IF Contains(s, <<"s", "i", "n", "g", "l", "e">>) THEN <<"S", "i", "n", "g", "l", "e">>
     ELSE IF m # <<>> THEN Append(m, Quote)
     ELSE IF strip(label) # <<>> THEN strip(label) ELSE Small

\* ------------------------------------------------ Domino's: derive_size
\* tidy(): runs of white space become one blank, then strip (the explored
\* texts hold no HTML entity and no character that NFKC changes)
RECURSIVE squeeze(_)
squeeze(s) ==
  IF Len(s) < 2 THEN s
  ELSE IF IsSpace(s[1]) /\ IsSpace(s[2]) THEN squeeze(Tail(s))
  ELSE <<Head(s)>> \o squeeze(Tail(s))
tidy(t) == strip(squeeze(t))

\* the position after the unit when its parts follow from position j on,
\* white space allowed in front of each part and letters compared without
\* case; 0 when they do not
RECURSIVE MatchParts(_, _, _)
MatchParts(s, j, parts) ==
  IF parts = <<>> THEN j
  ELSE LET i == SkipSpaces(s, j)
       IN IF StartsAt(lower(s), i, Head(parts))
            THEN MatchParts(s, i + Len(Head(parts)), Tail(parts))
            ELSE 0

\* re.search(r"\b(\d{lo,hi})\s*<unit>...", s, re.I): group 1 of the leftmost
\* match, for a unit out of units; After(e) is what the pattern asks at the
\* position e that follows the unit
NumUnitSearch(s, lo, hi, units, After(_)) ==
  LET hits == {i \in 1..Len(s) :
                 /\ Boundary(s, i)
                 /\ RunLen(s, i) >= lo
                 /\ RunLen(s, i) <= hi
                 /\ \E u \in units :
                      LET e == MatchParts(s, i + RunLen(s, i), u)
                      IN e > 0 /\ After(e)}
  IN IF hits = {} THEN <<>>
     ELSE SubSeq(s, Least(hits), Least(hits) + RunLen(s, Least(hits)) - 1)

parse_size_from_text(name) ==
  LET s == strip(name)
      WordEnd(e) == Boundary(s, e)
      NoDigit(e) == e > Len(s) \/ ~IsDigit(s[e])
      inch   == NumUnitSearch(s, 1, 2, {<<  <<Quote>>  >>}, NoDigit)
      inches == NumUnitSearch(s, 1, 2, {<<<<"i", "n", "c", "h">>>>, <<<<"i", "n">>>>}, WordEnd)
      ml     == NumUnitSearch(s, 2, 4, {<<<<"m">>, <<"l">>>>}, WordEnd)
      litre  == NumUnitSearch(s, 1, Len(s),
                              {<<<<"l">>>>, <<<<"l", "i", "t", "r", "e">>>>, <<<<"l", "i", "t", "e", "r">>>>,
                               <<<<"l", "i", "t", "e", "r", "s">>>>, <<<<"l", "i", "t", "r", "e", "s">>>>}, WordEnd)
      piece  == NumUnitSearch(s, 1, 3, {<<<<"-">>, <<"p", "i", "e", "c", "e">>>>}, WordEnd)
      pc     == NumUnitSearch(s, 1, 3, {<<<<"p", "c">>>>}, WordEnd)
      pieces == NumUnitSearch(s, 1, 3, {<<<<"p", "i", "e", "c", "e", "s">>>>}, WordEnd)
  IN IF name = <<>> THEN <<>>
     ELSE IF inch # <<>> THEN Append(inch, Quote)
     ELSE IF inches # <<>> THEN Append(inches, Quote)
     ELSE IF ml # <<>> THEN ml \o <<" ", "m", "L">>
     ELSE IF litre # <<>> THEN litre \o <<" ", "L">>
     ELSE IF piece # <<>> THEN piece \o <<"-", "P", "i", "e", "c", "e">>
     ELSE IF pc # <<>> THEN pc \o <<" ", "p", "c">>
     ELSE IF pieces # <<>> THEN pieces \o <<"-", "P", "i", "e", "c", "e">>
     ELSE <<>>

\* PIZZAISH_RX, PIECEY_NAME_RX, BEV_NAME_RX .search(name)
PIZZAISH ==
  {<<"p", "i", "z", "z", "a">>, <<"c", "r", "u", "s", "t">>, <<"h", "a", "n", "d", " ", "t", "o", "s", "s", "e", "d">>, <<"h", "a", "n", "d", "t", "o", "s", "s", "e", "d">>, <<"t", "h", "i", "n">>, <<"b", "r", "o", "o", "k", "l", "y", "n">>,
   <<"n", "e", "w", "-", "y", "o", "r", "k">>, <<"n", "e", "w", "y", "o", "r", "k">>, <<"f", "i", "n", "g", "e", "r", "s">>}
PIECEY_NAME ==
  {<<"s", "t", "i", "x">>, <<"s", "t", "i", "c", "k", "s">>, <<"b", "r", "e", "a", "d">>, <<"b", "i", "t", "e", "s">>, <<"b", "r", "o", "w", "n", "i", "e">>, <<"w", "i", "n", "g", "s">>, <<"f", "i", "n", "g", "e", "r", "s">>}
BEV_NAME ==
  {<<"c", "o", "k", "e">>, <<"s", "p", "r", "i", "t", "e">>, <<"g", "i", "n", "g", "e", "r">>, <<"f", "a", "n", "t", "a">>, <<"r", "o", "o", "t", " ", "b", "e", "e", "r">>, <<"r", "o", "o", "t", "b", "e", "e", "r">>,
   <<"w", "a", "t", "e", "r">>, <<"f", "u", "z">>, <<"z", "e", "r", "o">>, <<"d", "i", "e", "t">>}
NameHas(words, name) == \E w \in words : Contains(lower(name), w)

\* int(digits) written out again: the digits without leading zeros
RECURSIVE IntText(_)
IntText(d) == IF Len(d) > 1 /\ Head(d) = "0" THEN IntText(Tail(d)) ELSE d

\* the texts of the numbers 6..20
SixToTwenty ==
  {<<"6">>, <<"7">>, <<"8">>, <<"9">>, <<"1", "0">>, <<"1", "1">>, <<"1", "2">>, <<"1", "3">>, <<"1", "4">>, <<"1", "5">>,
   <<"1", "6">>, <<"1", "7">>, <<"1", "8">>, <<"1", "9">>, <<"2", "0">>}

Min(a, b) == IF a < b THEN a ELSE b

parse_size_from_code(code, v_name, p_name) ==
  LET lead == RunLen(code, 1)
      \* re.match(r"^(\d{1,2})(?=[A-Z])", code)
      inchRun == IF lead \in {1, 2} /\ lead < Len(code) /\ IsUpper(code[lead + 1])
                   THEN SubSeq(code, 1, lead) ELSE <<>>
      \* re.search(r"(\d{1,3})PC", code, re.I)
      pcHits == {i \in 1..Len(code) :
                   /\ RunLen(code, i) \in 1..3
                   /\ StartsAt(lower(code), i + RunLen(code, i), <<"p", "c">>)}
      piecey == NameHas(PIECEY_NAME, v_name) \/ NameHas(PIECEY_NAME, p_name)
      bev    == NameHas(BEV_NAME, v_name) \/ NameHas(BEV_NAME, p_name)
      \* re.search(r"(\d{1,3})$", code)
      tailHits == {i \in 1..Len(code) :
                     RunLen(code, i) = Len(code) - i + 1 /\ RunLen(code, i) <= 3}
  IN IF code = <<>> THEN <<>>
     ELSE IF /\ inchRun # <<>>
             /\ IntText(inchRun) \in SixToTwenty
             /\ \/ NameHas(PIZZAISH, v_name)
                \/ NameHas(PIZZAISH, p_name)
                \/ Contains(code, <<"G", "A", "R", "F", "I", "N">>)
       THEN Append(IntText(inchRun), Quote)
     ELSE IF pcHits # {}
       THEN SubSeq(code, Least(pcHits), Least(pcHits) + RunLen(code, Least(pcHits)) - 1)
            \o <<" ", "p", "c">>
     ELSE IF piecey /\ lead >= 1 THEN SubSeq(code, 1, Min(lead, 3)) \o <<" ", "p", "c">>
     ELSE IF piecey /\ tailHits # {}
       THEN SubSeq(code, Least(tailHits), Len(code)) \o <<" ", "p", "c">>
     ELSE IF bev /\ lead >= 3 THEN SubSeq(code, 1, Min(lead, 4)) \o <<" ", "m", "L">>
     ELSE IF bev /\ lead >= 1 /\ StartsAt(lower(code), lead + 1, <<"l">>)
       THEN SubSeq(code, 1, lead) \o <<" ", "L">>
     ELSE <<>>

\* re.search(r"\b<word>\b", name, re.I)
WordSearch(name, word) ==
  \E i \in 1..Len(name) :
    /\ Boundary(name, i)
    /\ StartsAt(lower(name), i, word)
    /\ Boundary(name, i + Len(word))

fallback_size_from_keywords(name) ==
  IF name = <<>> THEN <<>>
  ELSE IF WordSearch(name, <<"c", "u", "p">>) THEN <<"C", "u", "p">>
  ELSE IF WordSearch(name, <<"b", "a", "g">>) THEN <<"B", "a", "g">>
  ELSE <<>>

\* v and prod are given by their Size and SizeName values
derive_size(v, prod, v_name, p_name, vcode) ==
  LET own    == tidy(Or(Or(v.Size, v.SizeName), <<>>))
      size   == IF own = <<>> THEN tidy(Or(Or(prod.Size, prod.SizeName), <<>>)) ELSE own
      text   == Or(parse_size_from_text(v_name), parse_size_from_text(p_name))
      coded  == parse_size_from_code(Or(vcode, <<>>), v_name, p_name)
  IN IF size # <<>> THEN size
     ELSE IF text # <<>> THEN text
     ELSE IF coded # <<>> THEN coded
     ELSE Or(fallback_size_from_keywords(v_name), fallback_size_from_keywords(p_name))

\* =================================================================== prices
(* A JSON value under a price key: a missing key, None, a text that is no   *)
(* number, a number, a text that spells a number, or an object.  A price    *)
(* that a function returns is <<>> for "" and <<c>> for the amount of c     *)
(* cents (Domino's, Pizza Hut) or of c dollars (Pizza Pizza).               *)
JMissing == [t |-> "missing"]
JNone == [t |-> "none"]
JStr == [t |-> "str"]
JNum(n) == [t |-> "num", n |-> n]
JNumStr(n) == [t |-> "numstr", n |-> n]
\* the object {k1: vals[1], k2: vals[2], ...}
JObj(vals) == [t |-> "obj", vals |-> vals]

\* a document amount in dollars, as cents
DollarsToCents(n) == n * 100

\* dominos_scraper.as_float
as_float(x) == IF x.t \in {"num", "numstr"} THEN <<x.n>> ELSE <<>>

\* for val in v.values(): the first one that as_float accepts
RECURSIVE FirstFloat(_)
FirstFloat(vals) ==
  IF vals = <<>> THEN <<>>
  ELSE IF as_float(Head(vals)) # <<>> THEN as_float(Head(vals))
  ELSE FirstFloat(Tail(vals))

\* d is given by its values under "Price", under "Prices" (the first of the
\* keys Prices, Pricing, PriceInfo, Amount, Amounts it holds) and under
\* "PriceCents" (the first of PriceCents, AmountCents, Cents)
price_of(d) ==
  LET direct == IF d.Price.t = "missing" THEN <<>> ELSE as_float(d.Price)
      nested == IF d.Prices.t = "missing" THEN <<>>
                ELSE IF d.Prices.t = "obj" THEN FirstFloat(d.Prices.vals)
                ELSE as_float(d.Prices)
      cents  == IF d.PriceCents.t = "missing" THEN <<>> ELSE as_float(d.PriceCents)
  IN IF direct # <<>> THEN <<DollarsToCents(direct[1])>>
     ELSE IF nested # <<>> THEN <<DollarsToCents(nested[1])>>
     ELSE cents

\* isinstance(x, (int, float))
IsNumber(x) == x.t = "num"

\* pizza_hut_scraper.cents_to_dollars: int(v) accepts numbers and digit texts
cents_to_dollars(x) == IF x.t \in {"num", "numstr"} THEN <<x.n>> ELSE <<>>

\* v is given by its values under "price", "unitPrice" (the first of
\* unitPrice, value, amount) and "priceCents"; an object under "price" by its
\* values under "amount" (the first of amount, value, price) and "cents";
\* prod by its values under "price" and "priceCents"
price_from_variant(v, prod) ==
  LET cand   == v.price
      inner  == IF cand.t = "obj" /\ IsNumber(cand.vals[1])
                  THEN <<DollarsToCents(cand.vals[1].n)>>
                ELSE IF cand.t = "obj" /\ cand.vals[2].t # "missing"
                  THEN cents_to_dollars(cand.vals[2])
                ELSE <<>>
      ownCts == IF v.priceCents.t = "missing" THEN <<>> ELSE cents_to_dollars(v.priceCents)
      prodCts == IF IsNumber(prod.priceCents) THEN cents_to_dollars(prod.priceCents)
                 ELSE <<>>
  IN IF IsNumber(cand) THEN <<DollarsToCents(cand.n)>>
     ELSE IF inner # <<>> THEN inner
     ELSE IF IsNumber(v.unitPrice) THEN <<DollarsToCents(v.unitPrice.n)>>
     ELSE IF ownCts # <<>> THEN ownCts
     ELSE IF IsNumber(prod.price) THEN <<DollarsToCents(prod.price.n)>>
     ELSE prodCts

\* --------------------------------------- Pizza Pizza: parse_config_prices
IsLower(c) == \E i \in DOMAIN LowerChars : LowerChars[i] = c
IsLetter(c) == IsUpper(c) \/ IsLower(c)
upper(s) ==
  [n \in DOMAIN s |->
     IF IsLower(s[n])
       THEN UpperChars[CHOOSE i \in DOMAIN LowerChars : LowerChars[i] = s[n]]
       ELSE s[n]]

\* str.title()
title(s) ==
  [n \in DOMAIN s |->
     IF n = 1 \/ ~IsLetter(s[IF n = 1 THEN 1 ELSE n - 1])
       THEN upper(<<s[n]>>)[1] ELSE lower(<<s[n]>>)[1]]

RegularDough == <<"R", "e", "g", "u", "l", "a", "r", " ", "D", "o", "u", "g", "h">>

_canonical_crust(label) ==
  LET s == lower(strip(label))
  IN IF s = <<>> THEN RegularDough
     ELSE IF Contains(s, <<"s", "t", "u", "f", "f", "e", "d">>) THEN <<"S", "t", "u", "f", "f", "e", "d", " ", "C", "r", "u", "s", "t">>
     ELSE IF \/ Contains(s, <<"g", "o", "u", "r", "m", "e", "t", " ", "t", "h", "i", "n">>)
             \/ Contains(s, <<"t", "h", "i", "n">>) /\ Contains(s, <<"c", "r", "u", "s", "t">>) THEN <<"T", "h", "i", "n">>
     ELSE IF Contains(s, <<"b", "r", "o", "o", "k", "l", "y", "n">>) THEN <<"B", "r", "o", "o", "k", "l", "y", "n">>
     ELSE IF Contains(s, <<"n", "e", "w", "-", "y", "o", "r", "k">>) \/ Contains(s, <<"n", "e", "w", " ", "y", "o", "r", "k">>) THEN <<"N", "e", "w", " ", "Y", "o", "r", "k", " ", "S", "t", "y", "l", "e">>
     ELSE IF Contains(s, <<"c", "a", "u", "l", "i", "f", "l", "o", "w", "e", "r">>) THEN <<"C", "a", "u", "l", "i", "f", "l", "o", "w", "e", "r">>
     ELSE IF Contains(s, <<"g", "l", "u", "t", "e", "n", " ", "f", "r", "e", "e">>) \/ Contains(s, <<"g", "l", "u", "t", "e", "n", "-", "f", "r", "e", "e">>) THEN <<"G", "l", "u", "t", "e", "n", " ", "F", "r", "e", "e">>
     ELSE IF \/ Contains(s, <<"r", "e", "g", "u", "l", "a", "r">>)
             \/ Contains(s, <<"o", "r", "i", "g", "i", "n", "a", "l">>)
             \/ Contains(s, <<"c", "l", "a", "s", "s", "i", "c">>) THEN RegularDough
     ELSE IF Contains(s, <<"h", "a", "n", "d", " ", "t", "o", "s", "s", "e", "d">>) \/ Contains(s, <<"h", "a", "n", "d", "-", "t", "o", "s", "s", "e", "d">>) THEN <<"H", "a", "n", "d", " ", "T", "o", "s", "s", "e", "d">>
     ELSE title(strip(label))

\* pizza_pizza_scraper.num
num(x) == IF x.t \in {"num", "numstr"} THEN <<x.n>> ELSE <<>>

Max(a, b) == IF a > b THEN a ELSE b
Abs(a) == IF a < 0 THEN 0 - a ELSE a

\* d[k] = v on a dict kept as its entries in insertion order
DictPut(d, k, v) ==
  IF \E n \in DOMAIN d : d[n].k = k
    THEN [n \in DOMAIN d |-> IF d[n].k = k THEN Item(k, v) ELSE d[n]]
    ELSE Append(d, Item(k, v))

Variant(sz, cr, price) == [size |-> sz, crust |-> cr, price |-> price]

\* a size entry of a dough option that is no dict: ps.get("price") raises
NotADict == [t |-> "notdict"]

\* the js_data block on the list variants: for every dough option, for every
\* size it prices.  raised tells that an exception ended the block; what was
\* appended before it stays in the list
RECURSIVE js_sizes(_, _, _)
js_sizes(crust_label, per_size, variants) ==
  IF per_size = <<>> THEN [variants |-> variants, raised |-> FALSE]
  ELSE LET ps    == Head(per_size)
           delta == IF num(ps.delta) = <<>> THEN 0 ELSE num(ps.delta)[1]
       IN IF ps.delta = NotADict THEN [variants |-> variants, raised |-> TRUE]
          ELSE js_sizes(crust_label, Tail(per_size),
                        Append(variants,
                               Variant(_canonical_size(ps.size), crust_label,
                                       Max(0, ps.base + delta))))

RECURSIVE js_variants(_, _)
js_variants(doughs, variants) ==
  IF doughs = <<>> THEN [variants |-> variants, raised |-> FALSE]
  ELSE LET done == js_sizes(_canonical_crust(Head(doughs).crust),
                            Head(doughs).per_size, variants)
       IN IF done.raised THEN done ELSE js_variants(Tail(doughs), done.variants)

\* _try_price_matrix: {(size, crust): price} over the priced nodes that
\* carry a size label
RECURSIVE _try_price_matrix(_, _)
_try_price_matrix(nodes, result) ==
  IF nodes = <<>> THEN result
  ELSE LET d == Head(nodes)
           crust == IF d.crust = <<>> THEN RegularDough ELSE d.crust
           \* num(d.get("price") or ...): a number 0 counts as no price
           price == IF d.price.t = "num" /\ d.price.n = 0 THEN <<>> ELSE num(d.price)
       IN _try_price_matrix(Tail(nodes),
            IF price = <<>> \/ d.size = <<>> THEN result
            ELSE DictPut(result,
                         <<_canonical_size(d.size), _canonical_crust(crust)>>,
                         price[1]))

\* vals[0] of every size option that has price fields
RECURSIVE raw_vals(_)
raw_vals(size_opts) ==
  IF size_opts = <<>> THEN <<>>
  ELSE (IF Head(size_opts).vals = <<>> THEN <<>>
        ELSE <<Item(_canonical_size(Head(size_opts).label), Head(size_opts).vals[1])>>)
       \o raw_vals(Tail(size_opts))

\* a dict filled from the entries in their order
RECURSIVE DictOf(_, _)
DictOf(entries, d) ==
  IF entries = <<>> THEN d
  ELSE DictOf(Tail(entries), DictPut(d, Head(entries).k, Head(entries).v))

\* sorted(vals, key=abs)[0]
SmallestAbs(vals) ==
  vals[CHOOSE n \in DOMAIN vals :
         \A m \in DOMAIN vals : Abs(vals[n]) < Abs(vals[m]) \/ (Abs(vals[n]) = Abs(vals[m]) /\ n <= m)]

\* an option value of this size or more is an absolute price, not a delta
AbsoluteFrom == 6

RECURSIVE crust_adj(_, _)
crust_adj(crust_opts, d) ==
  IF crust_opts = <<>> THEN d
  ELSE LET opt == Head(crust_opts)
           adj == IF opt.vals = <<>> THEN 0
                  ELSE IF SmallestAbs(opt.vals) >= AbsoluteFrom THEN 0
                  ELSE SmallestAbs(opt.vals)
       IN crust_adj(Tail(crust_opts), DictPut(d, _canonical_crust(opt.label), adj))

\* for sz, base_p in size_price_abs.items(): for cr, adj in crust_adj.items()
RECURSIVE size_times_crust(_, _)
size_times_crust(sizes, crusts) ==
  IF sizes = <<>> THEN <<>>
  ELSE [n \in DOMAIN crusts |->
          Variant(Head(sizes).k, crusts[n].k, Max(0, Head(sizes).v + crusts[n].v))]
       \o size_times_crust(Tail(sizes), crusts)

\* config is given by what the function finds in it: the dough options of
\* js_data, the priced nodes of the raw config, and the options of the size
\* group and of the crust group; starting_price is <<>> for None

\* "1) Explicit matrix if present": the variants of the matrix entries
matrix_variants(config) ==
  LET matrix == _try_price_matrix(config.matrix, <<>>)
  IN [n \in DOMAIN matrix |-> Variant(matrix[n].k[1], matrix[n].k[2], matrix[n].v)]

chosen_crust(fallback_crust) ==
  _canonical_crust(IF fallback_crust = <<>> THEN RegularDough ELSE fallback_crust)

\* "2) Group-based fallback": the variants the size and crust groups give
grouped_variants(config, starting_price, fallback_crust) ==
  LET raw     == raw_vals(config.size_opts)
      base    == IF starting_price = <<>> THEN 0 ELSE starting_price[1]
      priced  == IF raw = <<>> THEN <<>>
                 ELSE IF \E n \in DOMAIN raw : raw[n].v >= AbsoluteFrom THEN DictOf(raw, <<>>)
                 ELSE LET size_delta == DictOf(raw, <<>>)
                      IN [n \in DOMAIN size_delta |->
                            Item(size_delta[n].k, base + size_delta[n].v)]
      size_price_abs ==
        IF priced = <<>> /\ config.size_opts # <<>> /\ starting_price # <<>>
          THEN DictOf([n \in DOMAIN config.size_opts |->
                         Item(_canonical_size(config.size_opts[n].label), starting_price[1])],
                      <<>>)
          ELSE priced
  IN IF size_price_abs = <<>> THEN <<>>
     ELSE IF config.crust_opts # <<>>
       THEN size_times_crust(size_price_abs, crust_adj(config.crust_opts, <<>>))
     ELSE [n \in DOMAIN size_price_abs |->
             Variant(size_price_abs[n].k, chosen_crust(fallback_crust), size_price_abs[n].v)]

\* the last resort: one size and one crust at starting_price
last_resort(config, starting_price, fallback_crust) ==
  LET default_size ==
        IF config.size_opts = <<>> THEN Small
        ELSE _canonical_size(IF config.size_opts[1].label = <<>> THEN Small
                             ELSE config.size_opts[1].label)
  IN <<Variant(default_size, chosen_crust(fallback_crust), starting_price[1])>>

\* the list variants is filled by the js_data block, returned if the block
\* ended normally with something in it, and else handed on as it is to the
\* matrix, the groups and the last resort
parse_config_prices(config, starting_price, fallback_crust) ==
  LET js       == js_variants(config.js, <<>>)
      variants == js.variants
      matrix   == matrix_variants(config)
      grouped  == grouped_variants(config, starting_price, fallback_crust)
  IN IF ~js.raised /\ variants # <<>> THEN variants
     ELSE IF matrix # <<>> THEN variants \o matrix
     ELSE IF variants \o grouped # <<>> THEN variants \o grouped
     ELSE IF starting_price # <<>>
       THEN last_resort(config, starting_price, fallback_crust)
     ELSE <<>>

\* ============================================== Domino's: category index
\* the characters of the explored texts in code point order
CodePoints ==
  <<" ", "\"", "-", "0", "1", "2", "3", "4", "5", "6", "7", "8", "9", "A", "B", "C", "D", "E", "F", "G", "H", "I", "J", "K", "L", "M", "N", "O", "P", "Q", "R", "S", "T", "U", "V", "W", "X", "Y", "Z", "_", "a", "b", "c", "d", "e", "f", "g", "h", "i", "j", "k", "l", "m", "n", "o", "p", "q", "r", "s", "t", "u", "v", "w", "x", "y", "z", "|">>
CodePoint(c) == CHOOSE i \in DOMAIN CodePoints : CodePoints[i] = c

\* a < b for Python strings
RECURSIVE TextLess(_, _)
TextLess(a, b) ==
  IF b = <<>> THEN FALSE
  ELSE IF a = <<>> THEN TRUE
  ELSE IF Head(a) # Head(b) THEN CodePoint(Head(a)) < CodePoint(Head(b))
  ELSE TextLess(Tail(a), Tail(b))

\* sorted(S) for a set of texts
RECURSIVE sorted(_)
sorted(S) ==
  IF S = {} THEN <<>>
  ELSE LET least == CHOOSE a \in S : \A b \in S \ {a} : TextLess(a, b)
       IN <<least>> \o sorted(S \ {least})

\* " | ".join(texts)
RECURSIVE join(_)
join(texts) ==
  IF texts = <<>> THEN <<>>
  ELSE IF Len(texts) = 1 THEN texts[1]
  ELSE texts[1] \o <<" ", "|", " ">> \o join(Tail(texts))

\* a reference inside "Products": a code, or an object with Code / ProductCode
RefCode(c) == [t |-> "str", Code |-> c, ProductCode |-> Absent]
RefDict(c, pc) == [t |-> "dict", Code |-> c, ProductCode |-> pc]

\* a category: its Name and Code, the list under its "Products" key (which
\* stands for Products, Items, FeaturedProducts, PopularProducts and
\* RecommendedProducts) and the value under each child-category key
NoKids == [t |-> "none", elems |-> <<>>]
Category(name, code, products, categories, children, subcategories) ==
  [Name |-> name, Code |-> code, Products |-> products, Categories |-> categories,
   Children |-> children, Subcategories |-> subcategories]

\* _codes_from_mixed(value) for a list
RECURSIVE _codes_from_mixed(_)
_codes_from_mixed(value) ==
  IF value = <<>> THEN <<>>
  ELSE LET x    == Head(value)
           code == IF x.t = "str" THEN x.Code ELSE Or(x.Code, x.ProductCode)
       IN (IF Falsy(code) /\ x.t = "dict" THEN <<>> ELSE <<code>>)
          \o _codes_from_mixed(Tail(value))

\* add_map(code, cname, ccode) on the pair of indexes
add_map(idx, code, cname, ccode) ==
  IF Falsy(code) THEN idx
  ELSE [code_to_cat_names |->
          Put(idx.code_to_cat_names, code,
              Lookup(idx.code_to_cat_names, code, {}) \cup {tidy(cname)}),
        code_to_cat_codes |->
          Put(idx.code_to_cat_codes, code,
              Lookup(idx.code_to_cat_codes, code, {}) \cup {tidy(ccode)})]

RECURSIVE add_codes(_, _, _, _)
add_codes(idx, codes, cname, ccode) ==
  IF codes = <<>> THEN idx
  ELSE add_codes(add_map(idx, Head(codes), cname, ccode), Tail(codes), cname, ccode)

\* the child-category keys walk_category recurses into
OnlyCategories == <<"Categories">>
ChildKeys == <<"Categories", "Children", "Subcategories">>

KidsOf(cat, key) ==
  IF key = "Categories" THEN cat.Categories
  ELSE IF key = "Children" THEN cat.Children
  ELSE cat.Subcategories

\* walk_category over a list of categories, in order
RECURSIVE walk_categories(_, _)
walk_categories(cats, idx) ==
  IF cats = <<>> THEN idx
  ELSE LET cat   == Head(cats)
           cname == tidy(cat.Name)
           ccode == tidy(cat.Code)
           own   == add_codes(idx, _codes_from_mixed(cat.Products), cname, ccode)
           kids  == Concat([n \in DOMAIN ChildKeys |->
                              IF KidsOf(cat, ChildKeys[n]).t = "list"
                                THEN KidsOf(cat, ChildKeys[n]).elems ELSE <<>>])
       IN walk_categories(Tail(cats), walk_categories(kids, own))

\* the menu's category tree is given by the list
\* menu["Categorization"]["Food"]["Categories"]
collect_category_index(food_categories) ==
  walk_categories(food_categories, [code_to_cat_names |-> <<>>, code_to_cat_codes |-> <<>>])

\* the union of the sets the index holds for the codes
RECURSIVE CatUnion(_, _)
CatUnion(index, codes) ==
  IF codes = <<>> THEN {}
  ELSE Lookup(index, Head(codes), {}) \cup CatUnion(index, Tail(codes))

collect_category_strings(pcode, v_codes, code_to_cat_names, code_to_cat_codes) ==
  LET cat_names == CatUnion(code_to_cat_names, <<pcode>> \o v_codes)
      cat_codes == CatUnion(code_to_cat_codes, <<pcode>> \o v_codes)
  IN <<join(sorted({c \in cat_names : c # <<>>})),
       join(sorted({c \in cat_codes : c # <<>>}))>>

\* ============================================ Pizza Pizza: scrape_store rows
\* re.sub(r"\s+", " ", s.strip())
norm_label(s) == squeeze(strip(s))

\* str.isdigit()
IsDigits(s) == s # <<>> /\ \A n \in DOMAIN s : IsDigit(s[n])

\* re.sub(r"[^A-Z0-9]+", "", s.upper())
KeyChars(s) == SelectSeq(upper(s), LAMBDA c : IsUpper(c) \/ IsDigit(c))

_size_code(sz) ==
  LET s  == strip(sz)
      sl == lower(s)
  IN IF s # <<>> /\ s[Len(s)] = Quote /\ IsDigits(SubSeq(s, 1, Len(s) - 1))
       THEN SubSeq(s, 1, Len(s) - 1) \o <<"I", "N">>
     ELSE IF sl = <<"x", "-", "l", "a", "r", "g", "e">> THEN <<"X", "L">>
     ELSE IF sl \in {<<"x", "x", "l">>, <<"x", " ", "x", " ", "l">>} THEN <<"X", "X", "L">>
     ELSE IF sl = <<"l", "a", "r", "g", "e">> THEN <<"L", "G">>
     ELSE IF sl = <<"m", "e", "d", "i", "u", "m">> THEN <<"M", "D">>
     ELSE IF sl = <<"s", "m", "a", "l", "l">> THEN <<"S", "M">>
     ELSE IF sl = <<"p", "a", "r", "t", "y">> THEN <<"P", "A", "R", "T", "Y">>
     ELSE IF sl = <<"t", "w", "i", "n">> THEN <<"T", "W", "I", "N">>
     ELSE IF sl = <<"s", "i", "n", "g", "l", "e">> THEN <<"S", "I", "N", "G", "L", "E">>
     ELSE KeyChars(s)

_crust_code(cr) ==
  LET c == lower(strip(cr))
  IN IF c \in {<<"r", "e", "g", "u", "l", "a", "r", " ", "d", "o", "u", "g", "h">>, <<"r", "e", "g", "u", "l", "a", "r">>, <<"o", "r", "i", "g", "i", "n", "a", "l">>, <<"c", "l", "a", "s", "s", "i", "c">>} THEN <<"R", "E", "G">>
     ELSE IF Contains(c, <<"s", "t", "u", "f", "f", "e", "d">>) THEN <<"S", "T", "U", "F", "F", "E", "D">>
     ELSE IF \/ Contains(c, <<"g", "o", "u", "r", "m", "e", "t", " ", "t", "h", "i", "n">>)
             \/ Contains(c, <<"t", "h", "i", "n">>) /\ Contains(c, <<"c", "r", "u", "s", "t">>) THEN <<"T", "H", "I", "N">>
     ELSE IF Contains(c, <<"b", "r", "o", "o", "k", "l", "y", "n">>) THEN <<"B", "R", "O", "O", "K", "L", "Y", "N">>
     ELSE IF Contains(c, <<"n", "e", "w", " ", "y", "o", "r", "k">>) \/ Contains(c, <<"n", "e", "w", "-", "y", "o", "r", "k">>) THEN <<"N", "Y">>
     ELSE IF Contains(c, <<"c", "a", "u", "l", "i", "f", "l", "o", "w", "e", "r">>) THEN <<"C", "A", "U", "L", "I">>
     ELSE IF Contains(c, <<"g", "l", "u", "t", "e", "n", " ", "f", "r", "e", "e">>) \/ Contains(c, <<"g", "l", "u", "t", "e", "n", "-", "f", "r", "e", "e">>) THEN <<"G", "F">>
     ELSE IF Contains(c, <<"h", "a", "n", "d", " ", "t", "o", "s", "s", "e", "d">>) \/ Contains(c, <<"h", "a", "n", "d", "-", "t", "o", "s", "s", "e", "d">>) THEN <<"H", "A", "N", "D", "T", "O", "S", "S", "E", "D">>
     ELSE IF KeyChars(IF cr = <<>> THEN <<"R", "E", "G">> ELSE cr) = <<>> THEN <<"R", "E", "G">>
     ELSE KeyChars(IF cr = <<>> THEN <<"R", "E", "G">> ELSE cr)

variant_product_key(pid, size, crust) ==
  pid \o <<"_">> \o _size_code(size) \o <<"_">> \o _crust_code(crust)

\* the key test of the row loop, without the seen set
NeverSeen(pk, seen_variant_keys) == FALSE
\* if pk in seen_variant_keys: continue
AlreadySeen(pk, seen_variant_keys) == pk \in seen_variant_keys

\* the row built for the variant (sz, cr, price) of product pid; the price
\* text f"{float(price):.2f}" is kept as the amount in hundredths
pp_row(pid, sz, cr, price) ==
  LET size_val  == IF norm_label(sz) = <<>> THEN Small ELSE norm_label(sz)
      crust_val == IF norm_label(cr) = <<>> THEN RegularDough ELSE norm_label(cr)
  IN [product_key |-> <<"P", "P", "_">> \o variant_product_key(pid, size_val, crust_val),
      size |-> size_val, crust |-> crust_val, price |-> DollarsToCents(price)]

\* one pass of "for sz, cr, price in variants" on the accumulators acc
pp_emit(acc, pid, sz, cr, price) ==
  LET row == pp_row(pid, sz, cr, price)
  IN IF AlreadySeen(row.product_key, acc.seen_variant_keys) THEN acc
     ELSE [rows |-> Append(acc.rows, row),
           seen_variant_keys |-> acc.seen_variant_keys \cup {row.product_key}]

\* ================================================ Domino's: rows and main
\* a text under a key of a node
Text(s) == [t |-> "text", s |-> s]
KeyName == <<"Name">>
KeySize == <<"Size">>
KeyCrust == <<"Crust">>
KeyFlavor == <<"Flavor">>

\* tidy(node.get(key) or "")
Field(node, key) ==
  IF HasKey(node, key) /\ Get(node, key).t = "text" THEN tidy(Get(node, key).s) ELSE <<>>

\* the node as derive_size and price_of read it
SizeFields(node) == [Size |-> Field(node, KeySize), SizeName |-> <<>>]
PriceFields(node) ==
  [Price |-> IF node.Price = Absent THEN JMissing ELSE JNum(node.Price[1]),
   Prices |-> JMissing, PriceCents |-> JMissing]
NoNode == Dict(Absent, Absent, Absent, Absent, FALSE, <<>>)

\* the text of a code: a plain code, or f"{pcode}__v{idx + 1:03d}"
PlainCodeText(c) == IF c = "P1" THEN <<"P", "1">> ELSE IF c = "V1" THEN <<"V", "1">> ELSE <<>>
OrdinalText == <<<<"0", "0", "1">>, <<"0", "0", "2">>, <<"0", "0", "3">>, <<"0", "0", "4">>, <<"0", "0", "5">>, <<"0", "0", "6">>, <<"0", "0", "7">>, <<"0", "0", "8">>>>
CodeText(code) ==
  IF code = Absent THEN <<>>
  ELSE IF Len(code) = 1 THEN PlainCodeText(code[1])
  ELSE PlainCodeText(code[1]) \o <<"_", "_", "v">> \o OrdinalText[code[2]]

CRUST_PATTERNS ==
  <<<<"P", "a", "r", "m", "e", "s", "a", "n", " ", "S", "t", "u", "f", "f", "e", "d", " ", "C", "r", "u", "s", "t">>, <<"C", "r", "u", "n", "c", "h", "y", " ", "T", "h", "i", "n", " ", "C", "r", "u", "s", "t">>, <<"N", "e", "w", "-", "Y", "o", "r", "k", " ", "S", "t", "y", "l", "e">>,
    <<"H", "a", "n", "d", " ", "T", "o", "s", "s", "e", "d">>, <<"B", "r", "o", "o", "k", "l", "y", "n">>, <<"G", "l", "u", "t", "e", "n", " ", "F", "r", "e", "e">>, <<"P", "a", "n", " ", "P", "i", "z", "z", "a">>>>

parse_crust_from_name(name) ==
  LET hits == {n \in DOMAIN CRUST_PATTERNS : Contains(lower(name), lower(CRUST_PATTERNS[n]))}
  IN IF hits = {} THEN <<>> ELSE CRUST_PATTERNS[Least(hits)]

\* sorted(prod_codes) over the product codes of the explored documents
CodeOrder == << <<"P1">>, <<"V1">> >>
SortedCodes(S) == SelectSeq(CodeOrder, LAMBDA c : c \in S)

WorkRow(cats, pcode, pname, vcode, vname, size, crust, flavor, price) ==
  [category_names |-> cats, product_code |-> pcode, product_name |-> pname,
   variant_code |-> vcode, variant_name |-> vname, size |-> size, crust |-> crust,
   flavor |-> flavor, price |-> price]

\* the rows scrape_store builds for product pcode (store, city, province,
\* description, portion and category codes are left out of a row)
product_rows(pcode, pbc, vbc, ptv, index) ==
  LET prod    == Lookup(pbc, pcode, NoNode)
      p_name  == Field(prod, KeyName)
      v_codes == Lookup(ptv, pcode, <<>>)
      cat_str == collect_category_strings(pcode, v_codes, index.code_to_cat_names,
                                          index.code_to_cat_codes)[1]
      VariantRow(vcode) ==
        LET v      == Lookup(vbc, vcode, [v |-> NoNode]).v
            v_name == Field(v, KeyName)
            own    == Field(v, KeyCrust)
            crust  == IF own # <<>> THEN own
                      ELSE Or(Or(Field(prod, KeyCrust), parse_crust_from_name(v_name)),
                              parse_crust_from_name(p_name))
            price  == IF v = NoNode THEN <<>> ELSE price_of(PriceFields(v))
        IN WorkRow(cat_str, pcode, p_name, CodeText(vcode), v_name,
                   derive_size(SizeFields(v), SizeFields(prod), v_name, p_name,
                               CodeText(vcode)),
                   crust, Or(Field(v, KeyFlavor), Field(prod, KeyFlavor)),
                   IF price = <<>> THEN price_of(PriceFields(prod)) ELSE price)
  IN IF v_codes = <<>>
       THEN <<WorkRow(cat_str, pcode, p_name, <<>>, <<>>,
                      derive_size(SizeFields(NoNode), SizeFields(prod), <<>>, p_name, <<>>),
                      Or(Field(prod, KeyCrust), parse_crust_from_name(p_name)),
                      Field(prod, KeyFlavor), price_of(PriceFields(prod)))>>
       ELSE [n \in DOMAIN v_codes |-> VariantRow(v_codes[n])]

RECURSIVE rows_of(_, _, _, _, _)
rows_of(pcodes, pbc, vbc, ptv, index) ==
  IF pcodes = <<>> THEN <<>>
  ELSE product_rows(Head(pcodes), pbc, vbc, ptv, index)
       \o rows_of(Tail(pcodes), pbc, vbc, ptv, index)

\* the "basic keep rule"
Kept(r) == r.product_name # <<>> \/ r.variant_name # <<>> \/ r.price # <<>>

\* dominos_scraper.scrape_store after the two downloads: m is the menu and
\* food_categories its category tree
dominos_rows(m, food_categories) ==
  LET out   == Returned(m)
      index == collect_category_index(food_categories)
      prod_codes ==
        DOMAIN out.products_by_code
        \cup {out.variants_by_code[vc].v.ProductCode :
                vc \in {c \in DOMAIN out.variants_by_code :
                          ~Falsy(out.variants_by_code[c].v.ProductCode)}}
  IN SelectSeq(rows_of(SortedCodes(prod_codes), out.products_by_code,
                       out.variants_by_code, out.product_to_variants, index),
               Kept)

\* the record main writes for a work row
Record(r) ==
  [category |-> <<"P", "i", "z", "z", "a">>,
   recipe |-> IF strip(r.product_name) = <<"P", "i", "z", "z", "a">> THEN <<"C", "Y", "O">> ELSE r.product_name,
   product_key |-> IF r.variant_code = <<>> THEN <<>> ELSE <<"D", "P", "_">> \o r.variant_code,
   size |-> r.size,
   crust |-> r.flavor,
   price |-> r.price]

\* main from pd.DataFrame(all_rows) on: the pizza-only filter and the column
\* mapping; a frame built from no rows has no columns, and selecting the
\* columns raises KeyError
dominos_main(all_rows_in) ==
  LET pizza == SelectSeq(all_rows_in,
                         LAMBDA r : Contains(lower(r.category_names), <<"p", "i", "z", "z", "a">>))
  IN [raised |-> all_rows_in = <<>>,
      records |-> [n \in DOMAIN pizza |-> Record(pizza[n])]]

\* ==================================================== the functions alone
(* Each canonicalizer, price reader and row builder is called on its own,  *)
(* on an argument out of the sets below.                                   *)
\* longest text, in words
MaxWords == 2
\* longest list of top-level categories
MaxCats == 2
\* longest list of variants handed to the Pizza Pizza row loop
MaxVariants == 2

SizeWords ==
  {<<"x", "-", "l", "a", "r", "g", "e">>, <<"x", "_", "l", "a", "r", "g", "e">>, <<"x", "l", "a", "r", "g", "e">>, <<"x", "l">>, <<"m", "e", "d", "i", "u", "m">>, <<"L", "a", "r", "g", "e">>, <<"s", "m", "a", "l", "l">>,
   <<"p", "e", "r", "s", "o", "n", "a", "l">>, <<"p", "a", "r", "t", "y">>, <<"1", "2">>, <<"8">>, <<"1">>, <<" ">>, <<Quote>>}
SizeTexts == {Concat(ws) : ws \in SeqsUpTo(SizeWords, MaxWords)}

NormalizeSizeArgs ==
  {[size_val |-> s, fallback_from_text |-> <<>>] : s \in SizeTexts}
  \cup {[size_val |-> e, fallback_from_text |-> f] : e \in {<<>>, <<" ">>}, f \in SizeTexts}

NameWords ==
  {<<"P", "e", "p", "p", "e", "r", "o", "n", "i">>, <<"P", "i", "z", "z", "a">>, <<"W", "i", "n", "g", "s">>, <<"C", "o", "k", "e">>, <<"C", "u", "p">>, <<"i", "n", "c", "h">>, <<"p", "c">>, <<"l">>,
   <<"1", "2">>, <<"2">>, <<" ">>, <<Quote>>}
NameTexts == {Concat(ws) : ws \in SeqsUpTo(NameWords, MaxWords)}

\* v["Size"], prod["Size"], v_name and vcode next to the product name
DeriveSizeCases ==
  {<<<<>>, <<>>, <<>>, <<>>>>,
   <<<<"L", "a", "r", "g", "e">>, <<>>, <<>>, <<"V", "1">>>>,
   <<<<>>, <<" ", "M", "e", "d", "i", "u", "m", " ">>, <<>>, <<>>>>,
   <<<<>>, <<>>, <<"1", "2", "\"", " ", "H", "a", "n", "d", " ", "T", "o", "s", "s", "e", "d">>, <<"V", "1">>>>,
   <<<<>>, <<>>, <<>>, <<"V", "1">>>>,
   <<<<>>, <<>>, <<>>, <<"1", "2", "S", "C", "R", "E", "E", "N">>>>,
   <<<<>>, <<>>, <<>>, <<"B", "8", "P", "C", "S", "C", "B">>>>,
   <<<<>>, <<>>, <<>>, <<"2", "L", "C", "O", "K", "E">>>>}
DeriveSizeArgs ==
  {[v |-> [Size |-> c[1], SizeName |-> <<>>], prod |-> [Size |-> c[2], SizeName |-> <<>>],
    v_name |-> c[3], p_name |-> n, vcode |-> c[4]] :
     c \in DeriveSizeCases, n \in NameTexts}

\* document amounts: dollars, and cents
Amounts == {-5, 0, 10}
CentAmounts == {-500, 999}

PriceOfArgs ==
  [Price : {JMissing, JNone, JStr} \cup {JNum(a) : a \in Amounts}
             \cup {JNumStr(a) : a \in Amounts},
   Prices : {JMissing, JNum(-5), JObj(<<JNone, JNum(10)>>), JObj(<<JNum(-5)>>)},
   PriceCents : {JMissing, JStr} \cup {JNum(c) : c \in CentAmounts}]

PriceFromVariantArgs ==
  [v : [price : {JMissing, JStr, JNumStr(10)} \cup {JNum(a) : a \in Amounts}
                  \cup {JObj(<<am, ct>>) :
                          am \in {JMissing, JNum(-5), JNum(10)},
                          ct \in {JMissing, JNum(-500), JNumStr(999)}},
        unitPrice : {JMissing, JNum(-5), JNum(10)},
        priceCents : {JMissing, JNone, JNum(-500)}],
   prod : [price : {JMissing, JNum(-5)},
           priceCents : {JMissing, JNum(999), JNumStr(999)}]]

\* Pizza Pizza amounts, in dollars: a negative delta, a delta, a price
ConfigAmounts == {-9, 2, 7}

ConfigArgs ==
  [config :
     [js : {<<>>}
           \cup {<<[crust |-> <<"r", "e", "g", "u", "l", "a", "r">>,
                    per_size |-> <<[size |-> <<"s", "m", "a", "l", "l">>, base |-> 7, delta |-> d]>>]>> :
                   d \in {JNone} \cup {JNum(a) : a \in ConfigAmounts}}
           \cup {<<[crust |-> <<"r", "e", "g", "u", "l", "a", "r">>,
                    per_size |-> <<[size |-> <<"s", "m", "a", "l", "l">>, base |-> 7, delta |-> JNum(2)],
                                   [size |-> <<"L", "a", "r", "g", "e">>, base |-> 9, delta |-> NotADict]>>]>>},
      matrix : {<<>>}
               \cup {<<[size |-> s, crust |-> <<>>, price |-> JNum(a)]>> :
                       s \in {<<>>, <<"L", "a", "r", "g", "e">>}, a \in {-9, 0, 7}},
      size_opts : {<<>>, <<[label |-> <<"s", "m", "a", "l", "l">>, vals |-> <<>>]>>,
                   <<[label |-> <<"s", "m", "a", "l", "l">>, vals |-> <<2>>],
                     [label |-> <<"L", "a", "r", "g", "e">>, vals |-> <<7>>]>>}
                  \cup {<<[label |-> <<"s", "m", "a", "l", "l">>, vals |-> <<a>>]>> : a \in ConfigAmounts},
      crust_opts : {<<>>, <<[label |-> <<"t", "h", "i", "n", " ", "c", "r", "u", "s", "t">>, vals |-> <<>>]>>,
                    <<[label |-> <<"t", "h", "i", "n", " ", "c", "r", "u", "s", "t">>, vals |-> <<-9, 2>>]>>,
                    <<[label |-> <<"t", "h", "i", "n", " ", "c", "r", "u", "s", "t">>, vals |-> <<7>>]>>}],
   starting_price : {<<>>, <<-9>>, <<0>>, <<7>>},
   fallback_crust : {<<>>}]

\* a category without child categories
LeafCategories ==
  {Category(name, <<"C", "1">>, refs, NoKids, NoKids, NoKids) :
     name \in {<<>>, <<"C", "l", "a", "s", "s", "i", "c">>, <<"S", "p", "e", "c", "i", "a", "l", "t", "y">>},
     refs \in {<<>>, <<RefCode(<<"P1">>)>>, <<RefDict(<<"V1">>, Absent)>>}}

\* a category that holds one child category under one of the three keys
ParentCategories ==
  {Category(<<"C", "l", "a", "s", "s", "i", "c">>, <<"C", "2">>, <<>>,
            IF key = "Categories" THEN kids ELSE NoKids,
            IF key = "Children" THEN kids ELSE NoKids,
            IF key = "Subcategories" THEN kids ELSE NoKids) :
     key \in {"Categories", "Children", "Subcategories"},
     kids \in {[t |-> "list", elems |-> <<c>>] :
                 c \in {Category(<<"S", "p", "e", "c", "i", "a", "l", "t", "y">>, <<"C", "3">>, refs, NoKids, NoKids, NoKids) :
                          refs \in {<<RefCode(<<"P1">>)>>, <<RefDict(<<"V1">>, Absent)>>}}}}

CategoryArgs ==
  {[food_categories |-> cs, pcode |-> <<"P1">>, v_codes |-> << <<"V1">> >>] :
     cs \in SeqsUpTo(LeafCategories \cup ParentCategories, MaxCats)}

\* the variants the row loop of Pizza Pizza's scrape_store goes through
PPVariants ==
  [pid : {<<"1", "2", "9", "0", "0">>, <<"1", "2", "9", "0", "1">>}, size : {Small},
   crust : {<<"D", "e", "e", "p", " ", "D", "i", "s", "h">>, <<"D", "e", "e", "p", "-", "D", "i", "s", "h">>}, price : {7, 9}]
PPArgs == SeqsUpTo(PPVariants, MaxVariants)

\* the product P1 of a Domino's document
PipelineProducts ==
  {Dict(<<"P1">>, Absent, Absent, price, TRUE, <<Item(KeyName, Text(name))>> \o extra) :
     price \in {Absent, <<10>>},
     name \in {<<"P", "e", "p", "p", "e", "r", "o", "n", "i">>, <<"P", "i", "z", "z", "a">>},
     extra \in {<<>>, <<Item(KeySize, Text(<<"L", "a", "r", "g", "e">>))>>,
                <<Item(KeyFlavor, Text(<<"H", "A", "N", "D", "T", "O", "S", "S">>))>>,
                <<Item(KeySize, Text(<<"L", "a", "r", "g", "e">>)), Item(KeyFlavor, Text(<<"H", "A", "N", "D", "T", "O", "S", "S">>))>>}}

\* its variant nodes: none, one with a code, one without
PipelineVariants ==
  {<<>>,
   <<Dict(<<"V1">>, Absent, <<"P1">>, <<12>>, FALSE, <<>>)>>,
   <<Dict(Absent, Absent, <<"P1">>, <<12>>, FALSE, <<>>)>>}

\* the category that lists P1, if one does
PipelineCategories ==
  {<<>>,
   <<Category(<<"P", "i", "z", "z", "a">>, <<"P", "i", "z", "z", "a">>, <<RefCode(<<"P1">>)>>, NoKids, NoKids, NoKids)>>,
   <<Category(<<"S", "i", "d", "e", "s">>, <<"S", "i", "d", "e", "s">>, <<RefCode(<<"P1">>)>>, NoKids, NoKids, NoKids)>>}

PipelineArgs ==
  {[menu |-> Dict(Absent, Absent, Absent, Absent, FALSE,
                  <<Item(KeyProducts,
                         Dict(Absent, Absent, Absent, Absent, FALSE, <<Item(<<"P1">>, p)>>)),
                    Item(KeyItems, Mapping(vs))>>),
    food_categories |-> cs] :
     p \in PipelineProducts, vs \in PipelineVariants, cs \in PipelineCategories}

ArgsOf(f) ==
  CASE f = "normalize_size" -> NormalizeSizeArgs
    [] f = "_canonical_size" -> SizeTexts
    [] f = "derive_size" -> DeriveSizeArgs
    [] f = "price_of" -> PriceOfArgs
    [] f = "price_from_variant" -> PriceFromVariantArgs
    [] f = "parse_config_prices" -> ConfigArgs
    [] f = "collect_category_index" -> CategoryArgs
    [] f = "pizza_pizza.scrape_store" -> PPArgs
    [] f = "dominos.scrape_store" -> PipelineArgs

Functions ==
  {"normalize_size", "_canonical_size", "derive_size", "price_of", "price_from_variant",
   "parse_config_prices", "collect_category_index", "pizza_pizza.scrape_store",
   "dominos.scrape_store"}

InitCall ==
  /\ OrchIdle
  /\ ExtractIdle
  /\ fn \in Functions
  /\ arg \in ArgsOf(fn)
  /\ ret = <<>>
  /\ cpc = "call"

\* the function fn returns Result in one step
Returns(f, Result) ==
  /\ cpc = "call"
  /\ fn = f
  /\ ret' = Result
  /\ cpc' = "return"
  /\ UNCHANGED <<fn, arg, orchVars, extractVars>>

call_normalize_size ==
  Returns("normalize_size", normalize_size(arg.size_val, arg.fallback_from_text))

call_canonical_size == Returns("_canonical_size", _canonical_size(arg))

call_derive_size ==
  Returns("derive_size", derive_size(arg.v, arg.prod, arg.v_name, arg.p_name, arg.vcode))

call_price_of == Returns("price_of", price_of(arg))

call_price_from_variant ==
  Returns("price_from_variant", price_from_variant(arg.v, arg.prod))

call_parse_config_prices ==
  Returns("parse_config_prices",
          parse_config_prices(arg.config, arg.starting_price, arg.fallback_crust))

\* scrape_store builds the category index of the menu ...
call_collect_category_index ==
  /\ cpc = "call"
  /\ fn = "collect_category_index"
  /\ ret' = [index |-> collect_category_index(arg.food_categories), strings |-> <<>>]
  /\ cpc' = "indexed"
  /\ UNCHANGED <<fn, arg, orchVars, extractVars>>

\* ... and asks it for the category strings of a product
call_collect_category_strings ==
  /\ cpc = "indexed"
  /\ fn = "collect_category_index"
  /\ ret' = [ret EXCEPT !.strings =
               collect_category_strings(arg.pcode, arg.v_codes,
                                        ret.index.code_to_cat_names,
                                        ret.index.code_to_cat_codes)]
  /\ cpc' = "return"
  /\ UNCHANGED <<fn, arg, orchVars, extractVars>>

\* Pizza Pizza scrape_store: rows and seen_variant_keys are created
pp_rows_start ==
  /\ cpc = "call"
  /\ fn = "pizza_pizza.scrape_store"
  /\ ret' = [rows |-> <<>>, seen_variant_keys |-> {}, done |-> 0]
  /\ cpc' = "loop"
  /\ UNCHANGED <<fn, arg, orchVars, extractVars>>

\* one pass of the row loop, on the next variant
pp_rows_step ==
  /\ cpc = "loop"
  /\ fn = "pizza_pizza.scrape_store"
  /\ ret.done < Len(arg)
  /\ LET q   == arg[ret.done + 1]
         acc == pp_emit([rows |-> ret.rows, seen_variant_keys |-> ret.seen_variant_keys],
                        q.pid, q.size, q.crust, q.price)
     IN ret' = [rows |-> acc.rows, seen_variant_keys |-> acc.seen_variant_keys,
                done |-> ret.done + 1]
  /\ UNCHANGED <<fn, arg, cpc, orchVars, extractVars>>

\* return rows
pp_rows_return ==
  /\ cpc = "loop"
  /\ fn = "pizza_pizza.scrape_store"
  /\ ret.done = Len(arg)
  /\ cpc' = "return"
  /\ UNCHANGED <<fn, arg, ret, orchVars, extractVars>>

\* Domino's scrape_store returns the work rows of the store
dominos_store_rows ==
  /\ cpc = "call"
  /\ fn = "dominos.scrape_store"
  /\ ret' = [rows |-> dominos_rows(arg.menu, arg.food_categories),
             raised |-> FALSE, records |-> <<>>]
  /\ cpc' = "rows"
  /\ UNCHANGED <<fn, arg, orchVars, extractVars>>

\* main turns the rows of the one store into the records it writes
dominos_main_records ==
  /\ cpc = "rows"
  /\ fn = "dominos.scrape_store"
  /\ ret' = [ret EXCEPT !.raised = dominos_main(ret.rows).raised,
                        !.records = dominos_main(ret.rows).records]
  /\ cpc' = "return"
  /\ UNCHANGED <<fn, arg, orchVars, extractVars>>

NextCall ==
  \/ call_normalize_size
  \/ call_canonical_size
  \/ call_derive_size
  \/ call_price_of
  \/ call_price_from_variant
  \/ call_parse_config_prices
  \/ call_collect_category_index
  \/ call_collect_category_strings
  \/ pp_rows_start
  \/ pp_rows_step
  \/ pp_rows_return
  \/ dominos_store_rows
  \/ dominos_main_records

SpecCall == InitCall /\ [][NextCall]_vars

\* ------------------------------------------------- category index claim
\* the categories of the tree, through every child-category list
RECURSIVE Reachable(_)
Reachable(cats) ==
  IF cats = <<>> THEN {}
  ELSE LET cat  == Head(cats)
           Kids(val) == IF val.t = "list" THEN Reachable(val.elems) ELSE {}
       IN {cat} \cup Kids(cat.Categories) \cup Kids(cat.Children)
          \cup Kids(cat.Subcategories) \cup Reachable(Tail(cats))

\* the category refers to the code
Refers(cat, code) ==
  \E n \in DOMAIN cat.Products :
    LET x == cat.Products[n]
    IN code = (IF x.t = "str" THEN x.Code ELSE Or(x.Code, x.ProductCode))

\* the non-empty names of the categories that refer to one of the codes
NamesFor(cats, codes) ==
  {tidy(cat.Name) : cat \in {c \in Reachable(cats) : \E code \in codes : Refers(c, code)}}
  \ {<<>>}

\* C15: every code a reachable category refers to is recorded under the
\* category's name and under its code, whichever of Categories, Children and
\* Subcategories leads to the category; the category string of a product is
\* the sorted non-empty names recorded for its code or one of its variant
\* codes, joined with " | " ("Classic | Specialty" for Specialty and Classic).
C15_CategoriesIndexed ==
  (fn = "collect_category_index" /\ cpc = "return") =>
    LET wanted == NamesFor(arg.food_categories, {arg.pcode} \cup {arg.v_codes[n] : n \in DOMAIN arg.v_codes})
    IN /\ \A cat \in Reachable(arg.food_categories) :
            \A code \in {<<"P1">>, <<"V1">>} :
              Refers(cat, code) =>
                /\ tidy(cat.Name) \in Lookup(ret.index.code_to_cat_names, code, {})
                /\ tidy(cat.Code) \in Lookup(ret.index.code_to_cat_codes, code, {})
       /\ ret.strings[1] = join(sorted(wanted))
       /\ wanted = {<<"C", "l", "a", "s", "s", "i", "c">>, <<"S", "p", "e", "c", "i", "a", "l", "t", "y">>} => ret.strings[1] = <<"C", "l", "a", "s", "s", "i", "c", " ", "|", " ", "S", "p", "e", "c", "i", "a", "l", "t", "y">>

\* the product is listed under Classic and, through a Children or a
\* Subcategories list, under Specialty
C15_Witness ==
  /\ fn = "collect_category_index"
  /\ cpc = "return"
  /\ ret.strings[1] = <<"C", "l", "a", "s", "s", "i", "c", " ", "|", " ", "S", "p", "e", "c", "i", "a", "l", "t", "y">>
  /\ \E n \in DOMAIN arg.food_categories :
       LET top == arg.food_categories[n]
       IN \E kids \in {top.Children, top.Subcategories} :
            /\ kids.t = "list"
            /\ \E j \in DOMAIN kids.elems :
                 tidy(kids.elems[j].Name) = <<"S", "p", "e", "c", "i", "a", "l", "t", "y">> /\ kids.elems[j].Products # <<>>

\* ---------------------------------------------------------- price claim
\* C16: no price function returns a negative price: price_of and
\* price_from_variant return "" or an amount of zero or more, and every
\* variant parse_config_prices returns has a price of zero or more.
C16_PricesNonNegative ==
  cpc = "return" =>
    /\ fn \in {"price_of", "price_from_variant"} => (ret = <<>> \/ ret[1] >= 0)
    /\ fn = "parse_config_prices" => \A n \in DOMAIN ret : ret[n].price >= 0

\* ------------------------------------------------------- pipeline claim
\* the document holds the product P1 "Pepperoni" with a price on it and no
\* variant node
ScenarioA ==
  /\ fn = "dominos.scrape_store"
  /\ LET p == Get(Get(arg.menu, KeyProducts), <<"P1">>)
     IN /\ Field(p, KeyName) = <<"P", "e", "p", "p", "e", "r", "o", "n", "i">>
        /\ p.Price # Absent
  /\ Get(arg.menu, KeyItems).items = <<>>

\* C17: for that document the Domino's pipeline writes exactly one record;
\* its product key is not empty and holds P1, and its size and its crust are
\* (default) tokens, not empty.
C17_ScenarioA ==
  (ScenarioA /\ cpc = "return") =>
    /\ ~ret.raised
    /\ Len(ret.records) = 1
    /\ Contains(ret.records[1].product_key, <<"P", "1">>)
    /\ ret.records[1].size # <<>>
    /\ ret.records[1].crust # <<>>

\* ------------------------------------------------------------ size claims
\* C18: no size canonicalizer returns the empty string: normalize_size,
\* _canonical_size and derive_size return a token for every input.
C18_SizeNeverEmpty ==
  (cpc = "return" /\ fn \in {"normalize_size", "_canonical_size", "derive_size"}) =>
    ret # <<>>

\* the text normalize_size decides on
Decided(a) ==
  LET s0 == replace(lower(strip(a.size_val)), "_", "-")
  IN IF s0 = <<>> THEN lower(strip(a.fallback_from_text)) ELSE s0

\* C19: normalize_size returns the inch number when the text holds one;
\* without one, a text that names the x-large tier ("x-large", "x_large",
\* "xlarge", "xl") gives "X-Large" and a text that names no tier gives
\* "Medium"; "medium" gives "Medium" and "12" gives 12".
C19_NormalizeSizePriority ==
  (fn = "normalize_size" /\ cpc = "return") =>
    LET s == Decided(arg)
        tiers == {<<"p", "e", "r", "s", "o", "n", "a", "l">>, <<"s", "m", "a", "l", "l">>, <<"m", "e", "d", "i", "u", "m">>, <<"l", "a", "r", "g", "e">>, <<"x", "l">>}
    IN /\ NumInchSearch(s) # <<>> => ret = Append(NumInchSearch(s), Quote)
       /\ (NumInchSearch(s) = <<>> /\ s \in {<<"x", "-", "l", "a", "r", "g", "e">>, <<"x", "l", "a", "r", "g", "e">>, <<"x", "l">>}) => ret = XLarge
       /\ (NumInchSearch(s) = <<>> /\ \A w \in tiers : ~Contains(s, w)) => ret = Medium
       /\ s = <<"m", "e", "d", "i", "u", "m">> => ret = Medium
       /\ s = <<"1", "2">> => ret = <<"1", "2", "\"">>

\* --------------------------------------------------- Pizza Pizza row claim
\* the row that the n-th variant of the argument asks for
AskedRow(n) == pp_row(arg[n].pid, arg[n].size, arg[n].crust, arg[n].price)

\* the first variant of the argument that asks for the key of the n-th one
FirstAsking(n) ==
  CHOOSE m \in 1..n :
    /\ AskedRow(m).product_key = AskedRow(n).product_key
    /\ \A j \in 1..(m - 1) : AskedRow(j).product_key # AskedRow(n).product_key

\* C20: in the rows of a store no two rows share a product_key; for every
\* variant processed the rows hold exactly the row of the first variant that
\* asked for its key, so a later variant with the same key is dropped and
\* leaves the emitted row as it is.
C20_ProductKeyUnique ==
  (fn = "pizza_pizza.scrape_store" /\ cpc \in {"loop", "return"}) =>
    /\ NoRepeat([n \in DOMAIN ret.rows |-> ret.rows[n].product_key])
    /\ \A n \in 1..ret.done :
         \E j \in DOMAIN ret.rows : ret.rows[j] = AskedRow(FirstAsking(n))
    /\ \A j \in DOMAIN ret.rows :
         \E n \in 1..ret.done : ret.rows[j] = AskedRow(FirstAsking(n))

\* two variants with another crust label and another price asked for the
\* same key, and the store's rows hold one row for them, the first one's
C20_Witness ==
  /\ fn = "pizza_pizza.scrape_store"
  /\ cpc = "return"
  /\ \E m, n \in DOMAIN arg :
       /\ m < n
       /\ AskedRow(m).product_key = AskedRow(n).product_key
       /\ arg[m].crust # arg[n].crust
       /\ arg[m].price # arg[n].price
       /\ Len(ret.rows) = 1
       /\ ret.rows[1] = AskedRow(m)

Submitted == {huts[i] : i \in {j \in Tasks : futs[j] # "none"}}

\* C28: every wave shrinks remaining: when the result loop of a wave is left,
\* remaining is a proper subset of the ids the wave was submitted for (so a
\* run has no more waves, and no more cooldowns, than initial target ids).
C28_WaveShrinksRemaining ==
  (chain = "PH" /\ opc \in {"shutdown", "cooldown"}) =>
    (remaining \subseteq Submitted /\ remaining # Submitted)

\* a wave in which every handled future was Throttled ends in the cooldown
\* with fewer targets than it started with
C28_Witness ==
  /\ chain = "PH"
  /\ opc = "cooldown"
  /\ remaining # {}
  /\ consumed # {}
  /\ \A j \in consumed : futs[j] = "throttled"
  /\ Cardinality(remaining) < Cardinality(Submitted)

\* C29: waves never overlap: when the orchestrator starts the cooldown, tests
\* the loop condition or clears STOP_FLAG and submits the next wave, no task
\* of an earlier wave is running or still queued, so no earlier worker can set
\* the flag or send a request in a later wave.
C29_WavesNeverOverlap ==
  (chain = "PH" /\ opc \in {"cooldown", "loop", "submit"}) =>
    \A i \in Tasks : ~Running(i) /\ futs[i] # "pending"

\* the cooldown started after the pool waited for a task that finished without
\* its future being handled, while the cancelled ones never ran
C29_Witness ==
  /\ chain = "PH"
  /\ opc = "cooldown"
  /\ \E i \in Tasks \ consumed : Finished(i)
  /\ \E j \in consumed : futs[j] = "throttled"

\* ================================================== further parts, alone
(* The parts below run on their own under SpecParts, with the variables of   *)
(* a function called on its own: fn names the part, arg is its input, ret    *)
(* holds its local variables and result, cpc its position.                   *)

\* ---------------------------- Pizza Hut: fetch_huts_with_backoff and main
\* most attempts asked of fetch_huts_with_backoff (the default is 6)
MaxAttempts == 3

\* what fetch_json(HUTS_URL) can come back with: a non-empty list of huts, an
\* empty list, another JSON value, None (400/404/5xx/RetryError/undecodable),
\* Throttled (429/403/ConnectionError) or another exception
HutsAnswers ==
  {[kind |-> "list", body |-> <<1>>], [kind |-> "list", body |-> <<1, 2>>],
   [kind |-> "list", body |-> <<>>], [kind |-> "dict", body |-> <<>>],
   [kind |-> "none", body |-> <<>>], [kind |-> "throttle", body |-> <<>>],
   [kind |-> "raise", body |-> <<>>]}

\* an attempt that leaves the flag as the last attempt left it
no_clear(flag) == flag
\* STOP_FLAG.clear()
clear(flag) == FALSE

\* for attempt in range(1, max_attempts + 1): try: STOP_FLAG.clear() ...
\* and, after the last attempt, return []
fetch_huts_attempt ==
  /\ fn = "fetch_huts_with_backoff"
  /\ cpc = "for"
  /\ IF ret.attempt < arg
       THEN /\ ret' = [ret EXCEPT !.attempt = ret.attempt + 1]
            /\ STOP_FLAG' = clear(STOP_FLAG)
            /\ cpc' = "fetch_json"
       ELSE /\ ret' = [ret EXCEPT !.huts = <<>>]
            /\ cpc' = "return"
            /\ UNCHANGED STOP_FLAG
  /\ UNCHANGED <<fn, arg, huts, remaining, pizzas_rows, futs, consumed, opc,
                 throttledEver, reported, chain, all_rows, extractVars>>

\* huts = fetch_json(HUTS_URL, params): Throttled without a request when the
\* flag is set; otherwise one request, whose answer is returned when it is a
\* non-empty list and slept on (2 + attempt, or the cooldown) when it is not
fetch_huts_fetch_json ==
  /\ fn = "fetch_huts_with_backoff"
  /\ cpc = "fetch_json"
  /\ IF STOP_FLAG
       THEN /\ cpc' = "for"
            /\ UNCHANGED <<ret, STOP_FLAG>>
       ELSE \E ans \in HutsAnswers :
              /\ STOP_FLAG' = (ans.kind = "throttle")
              /\ IF ans.kind = "list" /\ ans.body # <<>>
                   THEN /\ cpc' = "return"
                        /\ ret' = [ret EXCEPT !.fetches = ret.fetches + 1,
                                              !.received = Append(ret.received, ans),
                                              !.huts = ans.body]
                   ELSE /\ cpc' = "for"
                        /\ ret' = [ret EXCEPT !.fetches = ret.fetches + 1,
                                              !.received = Append(ret.received, ans)]
  /\ UNCHANGED <<fn, arg, huts, remaining, pizzas_rows, futs, consumed, opc,
                 throttledEver, reported, chain, all_rows, extractVars>>

\* main: huts = fetch_huts_with_backoff(); if not huts: sys.exit(1)
ph_main_huts ==
  /\ fn = "fetch_huts_with_backoff"
  /\ cpc = "return"
  /\ IF ret.huts = <<>>
       THEN /\ cpc' = "exit"
            /\ ret' = [ret EXCEPT !.calls = Append(ret.calls, "sys.exit(1)")]
       ELSE /\ cpc' = "blast_all"
            /\ UNCHANGED ret
  /\ UNCHANGED <<fn, arg, orchVars, extractVars>>

\* main: pizzas_rows = blast_all(huts); write_csv(OUT_FILE, pizzas_rows)
ph_main_blast_and_write ==
  /\ fn = "fetch_huts_with_backoff"
  /\ cpc = "blast_all"
  /\ ret' = [ret EXCEPT !.calls = ret.calls \o <<"blast_all", "write_csv">>]
  /\ cpc' = "done"
  /\ UNCHANGED <<fn, arg, orchVars, extractVars>>

\* -------------------------------------------------- Pizza Pizza: get_json
MAX_RETRIES == 10
RETRY_STATUS == {415, 429, 500, 502, 503}

\* what one session().get(...) can end with: a response with a status (a 200
\* whose body decodes or does not), a read timeout, a connection error, or
\* another exception of requests
GetAnswers ==
  {[kind |-> "json", code |-> 200], [kind |-> "not json", code |-> 200]}
  \cup {[kind |-> "status", code |-> c] : c \in RETRY_STATUS \cup {400, 403, 404}}
  \cup {[kind |-> k, code |-> 0] : k \in {"ReadTimeout", "ConnectionError", "TooManyRedirects"}}

\* what lands in "except (ReadTimeout, ConnErr, HTTPError)": the HTTPError
\* raised for a retryable status or by raise_for_status(), and the two
\* transport errors
Caught(ans) == ans.kind \in {"status", "ReadTimeout", "ConnectionError"}

\* a handler that treats no status as permanent
never_permanent(ans) == FALSE
\* isinstance(e, HTTPError) and e.response is not None
\* and e.response.status_code in (400, 404)
permanent(ans) == ans.kind = "status" /\ ans.code \in {400, 404}

\* for attempt in range(1, MAX_RETRIES + 1): r = session().get(...); after
\* the last pass the function would end without a return statement
get_json_request ==
  /\ fn = "get_json"
  /\ cpc = "for"
  /\ IF ret.attempt < MAX_RETRIES
       THEN /\ ret' = [ret EXCEPT !.attempt = ret.attempt + 1,
                                  !.requests = ret.requests + 1]
            /\ cpc' = "get"
       ELSE /\ ret' = [ret EXCEPT !.out = "None"]
            /\ cpc' = "return"
  /\ UNCHANGED <<fn, arg, orchVars, extractVars>>

\* the rest of the pass: return r.json(), or the except clause, or an
\* exception that no clause catches
get_json_answer ==
  /\ fn = "get_json"
  /\ cpc = "get"
  /\ \E ans \in GetAnswers :
       LET raises == \/ ~Caught(ans) /\ ans.kind # "json"
                     \/ Caught(ans) /\ (permanent(ans) \/ ret.attempt = MAX_RETRIES)
       IN /\ ret' = [ret EXCEPT !.last = ans,
                                !.out = IF ans.kind = "json" THEN "body"
                                        ELSE IF raises THEN "raised" ELSE "none"]
          /\ cpc' = IF ans.kind = "json" THEN "return"
                    ELSE IF raises THEN "raise" ELSE "for"
  /\ UNCHANGED <<fn, arg, orchVars, extractVars>>

\* ------------------------- Pizza Pizza: pizza_category_ids_and_names
PIZZA_ROOT_ID == 10020

\* a category of the list: its id, its parent_id (0 for none, as
\* int(c.get("parent_id") or 0) makes it) and products_available
PPCategory(id, parent_id, products_available) ==
  [id |-> id, parent_id |-> parent_id, products_available |-> products_available]

\* id_to_parent after the first loop
RECURSIVE id_to_parent(_, _)
id_to_parent(categories, d) ==
  IF categories = <<>> THEN d
  ELSE id_to_parent(Tail(categories),
                    Put(d, Head(categories).id, Head(categories).parent_id))

\* a test that looks at the parent only
direct_child(cid, root, parents, seen) == Lookup(parents, cid, 0) = root

\* is_descendant(cid, root): the while loop, with its seen set
RECURSIVE is_descendant(_, _, _, _)
is_descendant(cid, root, parents, seen) ==
  IF cid = 0 \/ cid \in seen THEN FALSE
  ELSE LET pid == Lookup(parents, cid, 0)
       IN IF pid = root THEN TRUE
          ELSE is_descendant(pid, root, parents, seen \cup {cid})

\* the ids the function returns (its second result, id_to_name, is left out)
pizza_category_ids_and_names(categories) ==
  LET parents == id_to_parent(categories, <<>>)
      pizza_ids ==
        SelectSeq(categories,
                  LAMBDA c : /\ \/ c.id = PIZZA_ROOT_ID
                                \/ is_descendant(c.id, PIZZA_ROOT_ID, parents, {})
                             /\ c.products_available)
      \* fallback: just the root
      root_only ==
        IF \E n \in DOMAIN categories :
             categories[n].id = PIZZA_ROOT_ID /\ categories[n].products_available
          THEN {PIZZA_ROOT_ID} ELSE {}
  IN IF pizza_ids = <<>> THEN Ascending(root_only)
     ELSE Ascending({pizza_ids[n].id : n \in DOMAIN pizza_ids})

\* category lists: positive, pairwise distinct ids; a parent_id that is
\* absent, listed, unlisted (7) or the root; links may form cycles
CategoryLists ==
  {cs \in SeqsUpTo({PPCategory(id, p, a) : id \in {1, 2, PIZZA_ROOT_ID},
                                            p \in {0, 1, 2, 7, PIZZA_ROOT_ID},
                                            a \in BOOLEAN}, MaxCats) :
     \A m, n \in DOMAIN cs : cs[m].id = cs[n].id => m = n}

call_pizza_category_ids ==
  /\ cpc = "call"
  /\ fn = "pizza_category_ids_and_names"
  /\ ret' = pizza_category_ids_and_names(arg)
  /\ cpc' = "return"
  /\ UNCHANGED <<fn, arg, orchVars, extractVars>>

\* ------------------------------------- Pizza Pizza: main, the final filter
\* most rows main has collected when it filters them
MaxRows == 3

\* the test with the key taken as it is
key_has_product_as_is(product_key) == Contains(product_key, <<"p", "r", "o", "d", "u", "c", "t">>)

\* "product" in str(r.get("product_key", "")).lower()
key_has_product(product_key) == Contains(lower(product_key), <<"p", "r", "o", "d", "u", "c", "t">>)

\* filtered_rows
filtered_rows(rows) ==
  SelectSeq(rows, LAMBDA r : ~key_has_product(r.product_key))

\* rows as scrape_store can build them, and a row without a product_key
\* (r.get gives "" for it)
CollectedRows ==
  {[product_key |-> k] :
     k \in {<<"P", "P", "_", "1", "2", "9", "0", "0", "_", "S", "_", "R", "E", "G">>, <<"P", "P", "_", "p", "r", "o", "d", "u", "c", "t", "_", "7", "_", "S", "_", "R", "E", "G">>, <<"P", "P", "_", "P", "r", "o", "d", "u", "c", "t", "_", "8", "_", "M", "_", "R", "E", "G">>,
            <<"P", "P", "_", "P", "R", "O", "D", "U", "C", "T", "9", "_", "L", "_", "T", "H", "N">>, <<>>}}

\* the final filter and the csv writer: one csv line per kept row, in order
pp_main_filter_and_write ==
  /\ cpc = "filter"
  /\ fn = "pizza_pizza.main"
  /\ ret' = filtered_rows(arg)
  /\ cpc' = "written"
  /\ UNCHANGED <<fn, arg, orchVars, extractVars>>

\* ----------------------------------------------- model.py: build_model
\* most rows read from the raw csv files
MaxStaged == 2

\* SQL NULL (an empty csv field, or a TRY_CAST that failed)
NULL == <<"NULL">>

\* hash(...) of DuckDB, taken as injective; a NULL argument is hashed like
\* any other value
hash(args) == <<"hash">> \o args

\* the subsets of S with at most n elements
RECURSIVE SetsUpTo(_, _)
SetsUpTo(S, n) ==
  IF n = 0 THEN {{}}
  ELSE LET smaller == SetsUpTo(S, n - 1)
       IN smaller \cup {p \cup {x} : p \in smaller, x \in S}

\* the rows of the raw csv files; price and date_key as TRY_CAST leaves them
StagedRows ==
  [chain_key : {NULL, <<"D", "o", "m", "i", "n", "o", "s">>},
   store_key : {NULL, <<"1", "0", "0", "0", "1">>},
   product_key : {NULL, <<"D", "P", "_", "P", "1">>, <<"D", "P", "_", "P", "r", "o", "d", "u", "c", "t", "_", "2">>},
   price : {NULL, <<"7", ".", "9", "9">>},
   date_key : {NULL, <<"2", "0", "2", "5", "-", "0", "1", "-", "0", "1">>}]

coalesce(v, d) == IF v = NULL THEN d ELSE v

\* CREATE VIEW stg ... WHERE lower(coalesce(product_key, '')) NOT LIKE '%product%'
stg(raw) ==
  {r \in raw : ~Contains(lower(coalesce(r.product_key, <<>>)), <<"p", "r", "o", "d", "u", "c", "t">>)}

\* CREATE TABLE dim_chain ... WHERE chain_key IS NOT NULL
dim_chain(stg_typed) ==
  {[chain_id |-> hash(<<r.chain_key>>), chain_key |-> r.chain_key] :
     r \in {q \in stg_typed : q.chain_key # NULL}}

\* CREATE TABLE dim_store
dim_store(stg_typed) ==
  {[store_id |-> hash(<<r.chain_key, r.store_key>>),
    chain_id |-> hash(<<r.chain_key>>),
    store_key |-> r.store_key] : r \in stg_typed}

\* CREATE TABLE dim_product
dim_product(stg_typed) ==
  {[product_id |-> hash(<<r.chain_key, r.product_key>>),
    chain_id |-> hash(<<r.chain_key>>),
    product_key |-> r.product_key] : r \in stg_typed}

\* CREATE TABLE dim_date ... WHERE date_key IS NOT NULL
dim_date(stg_typed) ==
  {[date_id |-> hash(<<r.date_key>>), date_key |-> r.date_key] :
     r \in {q \in stg_typed : q.date_key # NULL}}

\* CREATE TABLE fact_menu_price ... WHERE price IS NOT NULL AND date_key IS
\* NOT NULL (equal rows are kept once here)
fact_menu_price(stg_typed) ==
  {[chain_id |-> hash(<<r.chain_key>>),
    store_id |-> hash(<<r.chain_key, r.store_key>>),
    product_id |-> hash(<<r.chain_key, r.product_key>>),
    date_id |-> hash(<<r.date_key>>),
    price |-> r.price] :
     r \in {q \in stg_typed : q.price # NULL /\ q.date_key # NULL}}

\* con.execute(sql): the five tables
build_model_run ==
  /\ cpc = "sql"
  /\ fn = "build_model"
  /\ ret' = [dim_chain |-> dim_chain(stg(arg)),
             dim_store |-> dim_store(stg(arg)),
             dim_product |-> dim_product(stg(arg)),
             dim_date |-> dim_date(stg(arg)),
             fact_menu_price |-> fact_menu_price(stg(arg))]
  /\ cpc' = "exported"
  /\ UNCHANGED <<fn, arg, orchVars, extractVars>>

\* ------------------------------------- Pizza Hut: scrape_store, the rows
\* most products in the answer of one hut
MaxProducts == 2

\* a variant dict of a product: its size, its price and its label
HutVariant(size, price, label) == [size |-> size, price |-> price, label |-> label]

HutVariants ==
  {HutVariant(s, p, l) : s \in {<<>>, <<"s", "m", "a", "l", "l">>, <<"l", "a", "r", "g", "e">>}, p \in {JMissing, JNum(12)},
                         l \in {<<"m", "e", "d", "i", "u", "m">>}}

\* a product dict: the lists under "priceVariants" and "variants", and the
\* product-level "price" (JMissing when the key is not there)
HutProducts ==
  [priceVariants : {<<>>, <<HutVariant(<<"s", "m", "a", "l", "l">>, JNum(12), <<"m", "e", "d", "i", "u", "m">>),
                            HutVariant(<<"l", "a", "r", "g", "e">>, JNum(12), <<"m", "e", "d", "i", "u", "m">>)>>},
   variants : SeqsUpTo(HutVariants, 1)
              \cup {<<HutVariant(<<"l", "a", "r", "g", "e">>, JNum(12), <<"m", "e", "d", "i", "u", "m">>),
                      HutVariant(<<"s", "m", "a", "l", "l">>, JMissing, <<"m", "e", "d", "i", "u", "m">>)>>},
   price : {JMissing, JNum(10)}]

\* "gather variants": the first non-empty list, or one variant synthesized
\* from the product-level fields, or nothing
gather_variants(prod) ==
  IF prod.priceVariants # <<>> THEN prod.priceVariants
  ELSE IF prod.variants # <<>> THEN prod.variants
  ELSE IF prod.price # JMissing THEN <<HutVariant(<<>>, prod.price, <<>>)>>
  ELSE <<>>

\* the row of variant v of prod (size and price; the other columns are
\* left out)
hut_row(v, prod) ==
  [size |-> normalize_size(v.size, v.label),
   price |-> price_from_variant([price |-> v.price, unitPrice |-> JMissing,
                                 priceCents |-> JMissing],
                                [price |-> prod.price, priceCents |-> JMissing])]

\* a row put in front of the others
rows_push_front(rows, row) == <<row>> \o rows

\* rows.append({...})
rows_append(rows, row) == Append(rows, row)

\* for prod in products: ... for v in variants: rows.append(...)
ph_scrape_store_variant ==
  /\ cpc = "for"
  /\ fn = "pizza_hut.scrape_store"
  /\ ret.prod <= Len(arg)
  /\ LET variants == gather_variants(arg[ret.prod])
     IN IF ret.v <= Len(variants)
          THEN ret' = [ret EXCEPT
                         !.rows = rows_append(ret.rows, hut_row(variants[ret.v], arg[ret.prod])),
                         !.v = ret.v + 1]
          ELSE ret' = [ret EXCEPT !.prod = ret.prod + 1, !.v = 1]
  /\ UNCHANGED <<fn, arg, cpc, orchVars, extractVars>>

\* return StoreResult(store_key=store_key_prefixed, rows=rows)
ph_scrape_store_return ==
  /\ cpc = "for"
  /\ fn = "pizza_hut.scrape_store"
  /\ ret.prod > Len(arg)
  /\ cpc' = "return"
  /\ UNCHANGED <<fn, arg, ret, orchVars, extractVars>>

\* ------------------------------- Domino's: scrape_store, rows of a product
\* variant nodes of P1 with and without a code, and P1 itself with one
\* variant listed inline
OrderNodes ==
  {Dict(c, Absent, <<"P1">>, pr, FALSE, <<>>) : c \in {Absent, <<"V1">>}, pr \in {<<10>>, <<12>>}}
  \cup {Dict(<<"P1">>, Absent, Absent, Absent, FALSE,
             <<Item(KeyVariants, List(<<Dict(c, Absent, <<"P1">>, <<10>>, FALSE, <<>>)>>))>>) :
          c \in {Absent, <<"V1">>}}

OrderMenus ==
  {Dict(Absent, Absent, Absent, Absent, FALSE, <<Item(<<"Items">>, Mapping(ns))>>) :
     ns \in SeqsUpTo(OrderNodes, MaxList)}

\* scrape_store on the menu alone: the cleaned rows
dominos_variant_rows ==
  /\ cpc = "call"
  /\ fn = "dominos.scrape_store"
  /\ ret' = dominos_rows(arg, <<>>)
  /\ cpc' = "return"
  /\ UNCHANGED <<fn, arg, orchVars, extractVars>>

\* ------------------------------------------------------------ SpecParts
PartArgs(f) ==
  CASE f = "fetch_huts_with_backoff" -> 1..MaxAttempts
    [] f = "get_json" -> {<<>>}
    [] f = "pizza_category_ids_and_names" -> CategoryLists
    [] f = "pizza_pizza.main" -> SeqsUpTo(CollectedRows, MaxRows)
    [] f = "build_model" -> SetsUpTo(StagedRows, MaxStaged)
    [] f = "pizza_hut.scrape_store" -> SeqsUpTo(HutProducts, MaxProducts)
    [] f = "dominos.scrape_store" -> OrderMenus

\* the local variables of a part when it is entered
PartLocals(f) ==
  CASE f = "fetch_huts_with_backoff" ->
         [attempt |-> 0, fetches |-> 0, received |-> <<>>, huts |-> <<>>, calls |-> <<>>]
    [] f = "get_json" -> [attempt |-> 0, requests |-> 0, last |-> [kind |-> "none", code |-> 0], out |-> "none"]
    [] f = "pizza_category_ids_and_names" -> <<>>
    [] f = "pizza_pizza.main" -> <<>>
    [] f = "build_model" -> <<>>
    [] f = "pizza_hut.scrape_store" -> [rows |-> <<>>, prod |-> 1, v |-> 1]
    [] f = "dominos.scrape_store" -> <<>>

PartStart(f) ==
  CASE f = "fetch_huts_with_backoff" -> "for"
    [] f = "get_json" -> "for"
    [] f = "pizza_category_ids_and_names" -> "call"
    [] f = "pizza_pizza.main" -> "filter"
    [] f = "build_model" -> "sql"
    [] f = "pizza_hut.scrape_store" -> "for"
    [] f = "dominos.scrape_store" -> "call"

Parts == {"fetch_huts_with_backoff", "get_json", "pizza_category_ids_and_names", "pizza_pizza.main", "build_model", "pizza_hut.scrape_store", "dominos.scrape_store"}

InitParts ==
  /\ OrchIdle
  /\ ExtractIdle
  /\ fn \in Parts
  /\ arg \in PartArgs(fn)
  /\ ret = PartLocals(fn)
  /\ cpc = PartStart(fn)

NextParts ==
  \/ fetch_huts_attempt
  \/ fetch_huts_fetch_json
  \/ ph_main_huts
  \/ ph_main_blast_and_write
  \/ get_json_request
  \/ get_json_answer
  \/ call_pizza_category_ids
  \/ pp_main_filter_and_write
  \/ build_model_run
  \/ ph_scrape_store_variant
  \/ ph_scrape_store_return
  \/ dominos_variant_rows

SpecParts == InitParts /\ [][NextParts]_vars

\* ---------------------------------------------------- hut-list fetch claim
\* C26: fetch_huts_with_backoff sends every hut-list request with the
\* throttle flag cleared, sends at most max_attempts of them, returns the
\* first non-empty list it receives and returns an empty list only after
\* max_attempts attempts none of which brought one; on an empty list main
\* exits with status 1 and calls neither blast_all nor write_csv.
C26_HutsFetchBounded ==
  fn = "fetch_huts_with_backoff" =>
    LET good(n) == ret.received[n].kind = "list" /\ ret.received[n].body # <<>>
    IN /\ cpc = "fetch_json" => ~STOP_FLAG
       /\ ret.fetches <= arg
       /\ ret.fetches = Len(ret.received)
       /\ \A n \in DOMAIN ret.received :
            good(n) => (n = Len(ret.received) /\ ret.huts = ret.received[n].body
                        /\ cpc \in {"return", "blast_all", "done"})
       /\ cpc \in {"return", "exit", "blast_all", "done"} =>
            IF \E n \in DOMAIN ret.received : good(n)
              THEN ret.huts # <<>>
              ELSE ret.huts = <<>> /\ ret.attempt = arg /\ ret.fetches = arg
       /\ cpc \in {"blast_all", "done"} => ret.huts # <<>>
       /\ cpc = "exit" => ret.calls = <<"sys.exit(1)">>

\* three attempts, one throttled, one with an empty list and one failed, ended
\* in main's exit
C26_Witness ==
  /\ fn = "fetch_huts_with_backoff"
  /\ cpc = "exit"
  /\ arg = 3
  /\ {ret.received[n].kind : n \in DOMAIN ret.received} = {"throttle", "list", "raise"}
  /\ ret.received[1].kind = "throttle"

\* ------------------------------------------------------- get_json claim
\* the failures get_json is meant to retry
Retryable(ans) ==
  \/ ans.kind = "status" /\ ans.code \in {415, 429, 500, 502, 503}
  \/ ans.kind \in {"ReadTimeout", "ConnectionError"}

\* C25: get_json sends at most MAX_RETRIES requests and ends by returning
\* the decoded body or by raising, never by returning None; after a 400 or a
\* 404 it raises with no further request; after a retryable status, a read
\* timeout or a connection error it goes on to another request as long as
\* fewer than MAX_RETRIES were sent, and raises after the MAX_RETRIES-th.
C25_GetJsonBounded ==
  fn = "get_json" =>
    /\ ret.requests <= MAX_RETRIES
    /\ ret.requests = ret.attempt
    /\ cpc = "return" => (ret.out = "body" /\ ret.last.kind = "json")
    /\ cpc = "raise" => ret.out = "raised"
    /\ (cpc # "get" /\ ret.last.kind = "status" /\ ret.last.code \in {400, 404}) =>
         cpc = "raise"
    /\ (cpc # "get" /\ Retryable(ret.last)) =>
         IF ret.requests < MAX_RETRIES THEN cpc = "for" ELSE cpc = "raise"

\* the MAX_RETRIES-th request was answered with a 429 and the call raised
C25_Witness ==
  /\ fn = "get_json"
  /\ cpc = "raise"
  /\ ret.requests = MAX_RETRIES
  /\ ret.last = [kind |-> "status", code |-> 429]

\* ------------------------------------------------- Pizza subtree claim
\* the parent_id of the listed category with the id, 0 when none is listed
ParentOf(cs, id) ==
  IF \E n \in DOMAIN cs : cs[n].id = id
    THEN cs[CHOOSE n \in DOMAIN cs : cs[n].id = id].parent_id
    ELSE 0

\* following parent_id links from the id reaches the root in 1..n steps
RECURSIVE ReachesRoot(_, _, _)
ReachesRoot(cs, id, n) ==
  /\ n > 0
  /\ id # 0
  /\ \/ ParentOf(cs, id) = PIZZA_ROOT_ID
     \/ ReachesRoot(cs, ParentOf(cs, id), n - 1)

\* C30: pizza_category_ids_and_names returns (also for a list whose
\* parent_id links form a cycle or name unlisted ids) the ascending list,
\* without duplicates, of exactly the ids of the categories with
\* products_available that are the Pizza root or reach it by parent_id links.
C30_PizzaSubtree ==
  (fn = "pizza_category_ids_and_names" /\ cpc = "return") =>
    /\ \A m, n \in DOMAIN ret : m < n => ret[m] < ret[n]
    /\ {ret[n] : n \in DOMAIN ret}
         = {arg[n].id : n \in {k \in DOMAIN arg :
                                 /\ arg[k].products_available
                                 /\ \/ arg[k].id = PIZZA_ROOT_ID
                                    \/ ReachesRoot(arg, arg[k].id, Len(arg))}}

\* the function returned for a list in which one category is on a cycle of
\* parent_id links and another one reaches the root
C30_Witness ==
  /\ fn = "pizza_category_ids_and_names"
  /\ cpc = "return"
  /\ \E n \in DOMAIN arg :
       /\ arg[n].products_available
       /\ arg[n].id # PIZZA_ROOT_ID
       /\ \/ arg[n].parent_id = arg[n].id
          \/ ParentOf(arg, arg[n].parent_id) = arg[n].id
       /\ arg[n].id \notin {ret[k] : k \in DOMAIN ret}
  /\ ret # <<>>

\* ------------------------------------------------- final filter claim
\* the keys of CollectedRows that hold "product" in some letter case
NamedProduct ==
  {<<"P", "P", "_", "p", "r", "o", "d", "u", "c", "t", "_", "7", "_", "S", "_", "R", "E", "G">>, <<"P", "P", "_", "P", "r", "o", "d", "u", "c", "t", "_", "8", "_", "M", "_", "R", "E", "G">>, <<"P", "P", "_", "P", "R", "O", "D", "U", "C", "T", "9", "_", "L", "_", "T", "H", "N">>}

\* C21: the rows Pizza Pizza's main writes are exactly the collected rows
\* whose product_key does not hold "product" in any letter case, in the
\* order in which they were collected.
C21_ProductRowsDropped ==
  (fn = "pizza_pizza.main" /\ cpc = "written") =>
    ret = SelectSeq(arg, LAMBDA r : r.product_key \notin NamedProduct)

\* main wrote a row and dropped one whose key spells "Product" with a capital
C21_Witness ==
  /\ fn = "pizza_pizza.main"
  /\ cpc = "written"
  /\ \E n \in DOMAIN arg : arg[n].product_key = <<"P", "P", "_", "P", "r", "o", "d", "u", "c", "t", "_", "8", "_", "M", "_", "R", "E", "G">>
  /\ \E n \in DOMAIN arg : arg[n].product_key = <<"P", "P", "_", "1", "2", "9", "0", "0", "_", "S", "_", "R", "E", "G">>
  /\ ret = <<[product_key |-> <<"P", "P", "_", "1", "2", "9", "0", "0", "_", "S", "_", "R", "E", "G">>]>>

\* ------------------------------------------------- star schema claim
\* C23: every row of fact_menu_price references existing dimension rows: its
\* chain_id, store_id, product_id and date_id are the keys of a row of
\* dim_chain, dim_store, dim_product and dim_date, whatever rows were staged
\* (rows with a NULL chain_key, store_key or product_key included).
C23_FactReferencesDims ==
  (fn = "build_model" /\ cpc = "exported") =>
    \A f \in ret.fact_menu_price :
      /\ \E d \in ret.dim_chain : d.chain_id = f.chain_id
      /\ \E d \in ret.dim_store : d.store_id = f.store_id
      /\ \E d \in ret.dim_product : d.product_id = f.product_id
      /\ \E d \in ret.dim_date : d.date_id = f.date_id

\* ------------------------------------------------- variant order claim
\* the rows of the products ps, product after product, variant after variant
RECURSIVE RowsInListOrder(_)
RowsInListOrder(ps) ==
  IF ps = <<>> THEN <<>>
  ELSE [n \in DOMAIN gather_variants(Head(ps)) |->
          hut_row(gather_variants(Head(ps))[n], Head(ps))]
       \o RowsInListOrder(Tail(ps))

\* the add_variant registrations of the walk over document m, as code texts
EncounteredCodes(m) ==
  [n \in DOMAIN Walked(m).added |-> CodeText(Walked(m).added[n].vcode)]

\* C24: the variant records of an item come in the order in which the
\* variants were first encountered in the document: the rows of Domino's
\* scrape_store carry each registered variant code of a product once, at the
\* rank of its first registration, and the rows of Pizza Hut's scrape_store
\* are the rows of the variants in variant-list order.
C24_EncounterOrder ==
  /\ (fn = "dominos.scrape_store" /\ cpc = "return") =>
       LET seen == EncounteredCodes(arg)
           first(t) == Least({n \in DOMAIN seen : seen[n] = t})
       IN /\ \A n \in DOMAIN seen : \E k \in DOMAIN ret : ret[k].variant_code = seen[n]
          /\ \A k \in DOMAIN ret : \E n \in DOMAIN seen : ret[k].variant_code = seen[n]
          /\ \A j, k \in DOMAIN ret :
               j < k => first(ret[j].variant_code) < first(ret[k].variant_code)
  /\ (fn = "pizza_hut.scrape_store" /\ cpc = "return") =>
       ret.rows = RowsInListOrder(arg)

\* Domino's walk met the code V1 twice and then a variant without a code, and
\* the two rows are V1 and the synthesized code, in that order
C24_Witness ==
  /\ fn = "dominos.scrape_store"
  /\ cpc = "return"
  /\ Len(EncounteredCodes(arg)) = 3
  /\ EncounteredCodes(arg)[1] = <<"V", "1">>
  /\ EncounteredCodes(arg)[2] = <<"V", "1">>
  /\ Len(ret) = 2
  /\ ret[1].variant_code = <<"V", "1">>
  /\ ret[2].variant_code = <<"P", "1", "_", "_", "v", "0", "0", "3">>

\* ------------------------------------------------- price source claim
\* C22: parse_config_prices returns the variants of the highest-priority
\* source that yields any, and of that source only (js_data, the price
\* matrix, the option groups, one variant at starting_price); the variants a
\* js_data pass appended before it failed are never returned next to those
\* of the matrix or of the groups.
C22_OneSourceOnly ==
  (fn = "parse_config_prices" /\ cpc = "return") =>
    LET js      == js_variants(arg.config.js, <<>>)
        matrix  == matrix_variants(arg.config)
        grouped == grouped_variants(arg.config, arg.starting_price, arg.fallback_crust)
    IN IF ~js.raised /\ js.variants # <<>> THEN ret = js.variants
       ELSE IF matrix # <<>> THEN ret = matrix
       ELSE IF grouped # <<>> THEN ret = grouped
       ELSE IF js.variants # <<>> THEN ret = js.variants
       ELSE IF arg.starting_price # <<>>
         THEN ret = last_resort(arg.config, arg.starting_price, arg.fallback_crust)
       ELSE ret = <<>>

====
